---- MODULE Spec2Model ----
(***************************************************************************)
(* Model of test-certs-site: the per-domain certificate lifecycle engine.  *)
(* Storage (next/current slots on disk), the CertManager cache, the three  *)
(* condition checkers, the issuer state machine and the scheduler's job    *)
(* set.  Time is an integer clock; the zero time.Time is 0 and the clock   *)
(* starts at 1.  Durations are in abstract clock units.                    *)
(***************************************************************************)
EXTENDS Integers, FiniteSets, Sequences, Bags, TLC

\* ---------------------------------------------------------------- bounds
MaxTime == 4        \* the clock stops ticking here
MaxKeys == 4        \* private keys generated over a behaviour, all domains
MaxFaults == 1      \* environment faults and crashes over a behaviour
Minute == 1         \* time.Minute, in clock units
Hour == 3           \* time.Hour, in clock units
Lifetime == 2       \* validity period of the certificates the CA issues
CheckInterval == 1  \* revoked.checkInterval, in clock units
MaxJobs == 2        \* jobs submitted to the scheduler over a behaviour
MaxSchedTime == 3   \* the clock of the scheduler on its own stops here
MaxDelay == 1       \* longest delay handed to RunIn, in clock units
MaxKeyAuth == 2     \* distinct key authorizations the CA hands out
MaxAccountKeys == 3 \* distinct account keys acme.New generates
MaxRounds == 2      \* issue-and-promote rounds of the issuer under LockSpec
MaxDuration == 7    \* the largest time.Duration, math.MaxInt64 nanoseconds
MaxLeafTime == 4    \* latest notBefore and notAfter of a leaf handed to a checker
MaxDraw == 3        \* largest value drawn from mathrand.Int64N

\* ------------------------------------------------------- program constants
ReasonKeyCompromise == 1
ZeroTime == 0

VARIABLES
    now,          \* time.Now()
    disk,         \* Storage: disk[d][version] = the two files of a slot
    cache,        \* CertManager.certs: domain -> served material
    jobs,         \* Schedule.jobs: bag of pending jobs
    keyCtr,       \* keys generated so far, per domain
    revoked,      \* revocation requests the CA has accepted
    crl,          \* serials listed on the CA's published CRL
    everCurrent,  \* history: keys whose pair has been in the current slot
    nfaults,      \* faults and crashes injected so far
    last,         \* summary of the issuer run that produced this state
    incoming,     \* Schedule.incoming: jobs whose RunAt is blocked sending
    pc,           \* where the goroutine running Schedule.loop stands
    cancelled,    \* whether ctx.Done() is closed
    dispatched,   \* history: the jobs execute has popped, in order
    started,      \* history: the tasks whose goroutine has begun, in order
    together,     \* history: pairs of jobs that were in the heap together
    nextId,       \* identity of the next job submitted
    challengeCerts, \* CertManager.challengeCerts: domain -> challenge cert
    presented,    \* history: the last Present of a domain not cleaned up
    accounts,     \* the acme.json files, by the path of their directory
    stored,       \* history: what StoreACME was last asked and came to
    cycle,        \* history: how far the storage lifecycle of a domain is
    mu,           \* Storage.mu and CertManager.mu: the goroutine holding each
    thr,          \* the goroutines using the Storage and the CertManager
    probe         \* the last call of a checker or of LoadCertificate on its own

issuerVars == <<disk, cache, keyCtr, revoked, crl, everCurrent, nfaults, last>>
schedVars == <<incoming, pc, cancelled, dispatched, started, together, nextId>>
challengeVars == <<challengeCerts, presented>>
storeVars == <<accounts, stored, cycle>>
lockVars == <<mu, thr>>

vars == <<now, jobs, issuerVars, schedVars, challengeVars, storeVars,
          lockVars, probe>>

\* ------------------------------------------------------------ configuration
\* One configured site: its valid, revoked and expired domains.
Domains == {"valid.test", "revoked.test", "expired.test"}

Role(d) ==
    CASE d = "valid.test" -> "valid"
      [] d = "revoked.test" -> "revoked"
      [] d = "expired.test" -> "expired"

\* A server name no site configures.
ServerNames == Domains \cup {"unknown.test"}

\* ------------------------------------------------------------------ storage
\* A certificate file: the leaf's public key, validity, whether it carries a
\* CRL distribution point, and the number of certificates in the chain.
\* chain = 0 is a missing or unparseable file; key = 0 a missing key file.
NoCert == [key |-> 0, nb |-> 0, na |-> 0, crldp |-> FALSE, chain |-> 0]
EmptySlot == [key |-> 0, cert |-> NoCert]
EmptyDir == [next |-> EmptySlot, current |-> EmptySlot]

NoPair == [ok |-> FALSE, key |-> 0, cert |-> NoCert]

\* filepath.Join(s.dir, domain, ver, file) below s.dir: the elements that are
\* not empty, in order.
pathFor(domain, ver, file) ==
    SelectSeq(<<domain, ver, file>>, LAMBDA e : e # "")

\* A pathFor that leaves the domain out: every domain's files in one place.
InSharedDir(dsk, domain, dd) == [d \in DOMAIN dsk |-> dd]

\* The files written through pathFor(domain, ...) lie in the directory of
\* that domain; dd is what the directory holds after the writes.
InDomainDir(dsk, domain, dd) == [dsk EXCEPT ![domain] = dd]

\* tls.LoadX509KeyPair on the two files of a slot.
readWeak(dd, ver) ==
    LET s == dd[ver]
    IN  IF s.key # 0 /\ s.cert.chain >= 1
        THEN [ok |-> TRUE, key |-> s.key, cert |-> s.cert]
        ELSE NoPair

read(dd, ver) ==
    LET s == dd[ver]
    IN  IF s.key # 0 /\ s.cert.chain >= 1 /\ s.cert.key = s.key
        THEN [ok |-> TRUE, key |-> s.key, cert |-> s.cert]
        ELSE NoPair

ReadCurrent(dd) == read(dd, "current")

ReadNextNever(dd) == NoPair

ReadNext(dd) == read(dd, "next")

\* StoreNextKey writes the fresh key k; f names the injected fault.
StoreNextKey(dd, k, f) ==
    IF f = "keyErr"
    THEN [disk |-> dd, ok |-> FALSE, fired |-> TRUE]
    ELSE [disk |-> [dd EXCEPT !.next.key = k], ok |-> TRUE, fired |-> FALSE]

StoreNextCert(dd, c, f) ==
    IF f = "certErr"
    THEN [disk |-> dd, ok |-> FALSE, fired |-> TRUE]
    ELSE [disk |-> [dd EXCEPT !.next.cert = c], ok |-> TRUE, fired |-> FALSE]

\* TakeNext: MkdirAll, read next, rename the key, rename the certificate.
\* stage names the step the call stopped at; a crash between the two renames
\* leaves the same files as a failed second rename.
TakeNextKeyOnly(dd, f) ==
    LET c == read(dd, "next")
        d1 == [dd EXCEPT !.current.key = dd.next.key, !.next.key = 0]
    IN  IF f = "mkdirErr"
        THEN [disk |-> dd, ok |-> FALSE, pair |-> NoPair, stage |-> "mkdir"]
        ELSE IF ~c.ok
        THEN [disk |-> dd, ok |-> FALSE, pair |-> NoPair, stage |-> "read"]
        ELSE IF f = "renameKeyErr"
        THEN [disk |-> dd, ok |-> FALSE, pair |-> NoPair, stage |-> "renameKey"]
        ELSE [disk |-> d1, ok |-> TRUE, pair |-> c, stage |-> "done"]

TakeNext(dd, f) ==
    LET c == read(dd, "next")
        d1 == [dd EXCEPT !.current.key = dd.next.key, !.next.key = 0]
        d2 == [d1 EXCEPT !.current.cert = dd.next.cert, !.next.cert = NoCert]
    IN  IF f = "mkdirErr"
        THEN [disk |-> dd, ok |-> FALSE, pair |-> NoPair, stage |-> "mkdir"]
        ELSE IF ~c.ok
        THEN [disk |-> dd, ok |-> FALSE, pair |-> NoPair, stage |-> "read"]
        ELSE IF f = "renameKeyErr"
        THEN [disk |-> dd, ok |-> FALSE, pair |-> NoPair, stage |-> "renameKey"]
        ELSE IF f \in {"renameCertErr", "crashMidTake"}
        THEN [disk |-> d1, ok |-> FALSE, pair |-> NoPair, stage |-> "renameCert"]
        ELSE [disk |-> d2, ok |-> TRUE, pair |-> c, stage |-> "done"]

\* config.KeyTypeP256 and config.KeyTypeRSA2048.
KeyTypes == {"p256", "rsa2048"}

GenerateKeyP256Only(keyType, n) == (2 * n) - 1

\* The n-th key StoreNextKey generates, of the type asked for: the PKCS8 file
\* records the algorithm beside the key.
GenerateKey(keyType, n) == IF keyType = "p256" THEN (2 * n) - 1 ELSE 2 * n

\* The algorithm x509 finds in a PKCS8 key file.
KeyTypeOf(k) == IF k % 2 = 1 THEN "p256" ELSE "rsa2048"

\* StoreNextKey with its key type: an unknown type is refused before
\* anything is written.
StoreNextKeyOfType(dd, keyType, n, f) ==
    IF keyType \notin KeyTypes
    THEN [disk |-> dd, ok |-> FALSE, fired |-> FALSE]
    ELSE StoreNextKey(dd, GenerateKey(keyType, n), f)

\* The ACME directories a configuration may name; "" is none.
DirectoryURLs == {"https://ca-a.test/dir", "https://ca-b.test/dir"}
Directories == DirectoryURLs \cup {""}

\* url.PathEscape: every "/" of the directory URL becomes "%2F".
PathEscape(directory) ==
    CASE directory = "https://ca-a.test/dir" -> "https:%2F%2Fca-a.test%2Fdir"
      [] directory = "https://ca-b.test/dir" -> "https:%2F%2Fca-b.test%2Fdir"
      [] directory = "" -> ""

\* pathFor(url.PathEscape(directory), current, acmeAccountFilename):
\* filepath.Join drops an empty element.
AcctPath(directory) ==
    IF PathEscape(directory) = "" THEN <<"current", "acme.json">>
    ELSE <<PathEscape(directory), "current", "acme.json">>

\* x509.MarshalECPrivateKey and x509.ParseECPrivateKey.
NoKeyBytes == [curve |-> "", d |-> 0]
MarshalECPrivateKey(key) == [curve |-> "P-256", d |-> key]
ParseECPrivateKey(bytes) ==
    IF bytes.curve = "P-256" THEN [ok |-> TRUE, key |-> bytes.d]
    ELSE [ok |-> FALSE, key |-> 0]

\* An acme.json file: missing, cut short, or the whole JSON of an account.
NoFile == [exists |-> FALSE, whole |-> FALSE, uri |-> <<>>, key |-> NoKeyBytes]
CutFile == [exists |-> TRUE, whole |-> FALSE, uri |-> <<>>, key |-> NoKeyBytes]

NoAccount == [ok |-> FALSE, err |-> "none", uri |-> <<>>, key |-> 0]

\* ReadACME: open the file, decode the JSON, parse the key.
ReadACME(accts, directory) ==
    LET file == accts[AcctPath(directory)]
    IN  IF directory = "" THEN [NoAccount EXCEPT !.err = "noDirectory"]
        ELSE IF ~file.exists THEN [NoAccount EXCEPT !.err = "notExist"]
        ELSE IF ~file.whole THEN [NoAccount EXCEPT !.err = "json"]
        ELSE IF ~ParseECPrivateKey(file.key).ok
        THEN [NoAccount EXCEPT !.err = "parse"]
        ELSE [ok |-> TRUE, err |-> "none", uri |-> file.uri,
              key |-> ParseECPrivateKey(file.key).key]

\* StoreACME: MkdirAll, open the file truncating it, encode the account.
\* f names the step that fails; a failed encode leaves the file cut short.
StoreACME(accts, directory, accountURI, key, f) ==
    IF f \in {"acctMkdirErr", "acctOpenErr"}
    THEN [accounts |-> accts, ok |-> FALSE]
    ELSE IF f = "acctEncodeErr"
    THEN [accounts |-> [accts EXCEPT ![AcctPath(directory)] = CutFile],
          ok |-> FALSE]
    ELSE [accounts |-> [accts EXCEPT ![AcctPath(directory)] =
                           [exists |-> TRUE, whole |-> TRUE,
                            uri |-> accountURI,
                            key |-> MarshalECPrivateKey(key)]],
          ok |-> TRUE]

\* ------------------------------------------------------------- CertManager
\* certs.New tags each domain: only the expired domain should be expired.
ShouldBeExpired(d) == Role(d) = "expired"

NotLoaded == [loaded |-> FALSE, key |-> 0, cert |-> NoCert]

\* LoadCertificate: ReadCurrent, then replace the entry's material.
LoadCertificateFromNext(entry, dd) ==
    LET c == read(dd, "next")
    IN  IF c.ok THEN [loaded |-> TRUE, key |-> c.key, cert |-> c.cert]
        ELSE entry

LoadCertificate(entry, dd) ==
    LET c == ReadCurrent(dd)
    IN  IF c.ok THEN [loaded |-> TRUE, key |-> c.key, cert |-> c.cert]
        ELSE entry

LoadCertificateInDropsTag(certs, domain, dsk) ==
    IF ~ReadCurrent(dsk[domain]).ok THEN [certs |-> certs, err |-> "read"]
    ELSE IF domain \notin DOMAIN certs
    THEN [certs |-> certs, err |-> "unknown site"]
    ELSE [certs |-> [certs EXCEPT ![domain] =
                        [shouldBeExpired |-> FALSE,
                         material |-> LoadCertificate(certs[domain].material,
                                                      dsk[domain])]],
          err |-> "none"]

\* LoadCertificate on the whole map c.certs, whose entries carry the tag
\* shouldBeExpired beside the material: ReadCurrent first, then the lookup
\* of the domain, then the assignment cert.Certificate = &currCert.
LoadCertificateIn(certs, domain, dsk) ==
    IF ~ReadCurrent(dsk[domain]).ok THEN [certs |-> certs, err |-> "read"]
    ELSE IF domain \notin DOMAIN certs
    THEN [certs |-> certs, err |-> "unknown site"]
    ELSE [certs |-> [certs EXCEPT ![domain] =
                        [shouldBeExpired |-> certs[domain].shouldBeExpired,
                         material |-> LoadCertificate(certs[domain].material,
                                                      dsk[domain])]],
          err |-> "none"]

\* GetCertificate for a client hello without the acme-tls/1 protocol.
GetCertificateNoExpiryCheck(sni, t) ==
    IF sni \notin DOMAIN cache THEN NoPair
    ELSE IF ~cache[sni].loaded THEN NoPair
    ELSE IF ~(t > cache[sni].cert.na) /\ ShouldBeExpired(sni) THEN NoPair
    ELSE [ok |-> TRUE, key |-> cache[sni].key, cert |-> cache[sni].cert]

GetCertificate(sni, t) ==
    IF sni \notin DOMAIN cache THEN NoPair
    ELSE IF ~cache[sni].loaded THEN NoPair
    ELSE LET expired == t > cache[sni].cert.na
         IN  IF expired /\ ~ShouldBeExpired(sni) THEN NoPair
             ELSE IF ~expired /\ ShouldBeExpired(sni) THEN NoPair
             ELSE [ok |-> TRUE, key |-> cache[sni].key, cert |-> cache[sni].cert]

\* ----------------------------------------------------------------- checkers
\* Time.Sub: the difference of two instants as a Duration, which holds no
\* more than MaxDuration either way.
Sub(t, u) ==
    IF t - u > MaxDuration THEN MaxDuration
    ELSE IF t - u < 0 - MaxDuration - 1 THEN 0 - MaxDuration - 1
    ELSE t - u

\* halfTime: NotBefore.Add(lifetime / 2); Go's division truncates.
halfTime(c) ==
    LET lifetime == Sub(c.na, c.nb)
    IN  IF lifetime >= 0 THEN c.nb + (lifetime \div 2)
        ELSE c.nb - ((0 - lifetime) \div 2)

ShouldRevokeNever(role) == FALSE

ShouldRevoke(role) == role = "revoked"

\* checkCRL: no distribution point counts as revoked; otherwise fetch, parse,
\* verify the signature under the issuer, and look the serial up.
CheckCRLNoSignature(d, c, f) ==
    IF ~c.crldp THEN [isRevoked |-> TRUE, err |-> FALSE, crl |-> "absent"]
    ELSE IF f = "crlFetchErr" THEN [isRevoked |-> FALSE, err |-> TRUE, crl |-> "fetchErr"]
    ELSE IF f = "crlSigErr" THEN [isRevoked |-> TRUE, err |-> FALSE, crl |-> "sigErr"]
    ELSE IF <<d, c.key>> \in crl THEN [isRevoked |-> TRUE, err |-> FALSE, crl |-> "listed"]
    ELSE [isRevoked |-> FALSE, err |-> FALSE, crl |-> "unlisted"]

CheckCRL(d, c, f) ==
    IF ~c.crldp THEN [isRevoked |-> TRUE, err |-> FALSE, crl |-> "absent"]
    ELSE IF f = "crlFetchErr" THEN [isRevoked |-> FALSE, err |-> TRUE, crl |-> "fetchErr"]
    ELSE IF f = "crlSigErr" THEN [isRevoked |-> FALSE, err |-> TRUE, crl |-> "sigErr"]
    ELSE IF <<d, c.key>> \in crl THEN [isRevoked |-> TRUE, err |-> FALSE, crl |-> "listed"]
    ELSE [isRevoked |-> FALSE, err |-> FALSE, crl |-> "unlisted"]

RevokedCheckReadyNeverListed(d, c, t, f) ==
    [at |-> t + CheckInterval, err |-> FALSE, crl |-> "unlisted"]

RevokedCheckReadyCRLFirst(d, c, t, f) ==
    LET r == CheckCRL(d, c, f)
    IN  IF r.err THEN [at |-> t + CheckInterval, err |-> TRUE, crl |-> r.crl]
        ELSE IF r.isRevoked THEN [at |-> ZeroTime, err |-> FALSE, crl |-> r.crl]
        ELSE IF t > c.na THEN [at |-> ZeroTime, err |-> TRUE, crl |-> "unchecked"]
        ELSE [at |-> t + CheckInterval, err |-> FALSE, crl |-> r.crl]

RevokedCheckReady(d, c, t, f) ==
    IF t > c.na THEN [at |-> ZeroTime, err |-> TRUE, crl |-> "unchecked"]
    ELSE LET r == CheckCRL(d, c, f)
         IN  IF r.err THEN [at |-> t + CheckInterval, err |-> TRUE, crl |-> r.crl]
             ELSE IF ~r.isRevoked THEN [at |-> t + CheckInterval, err |-> FALSE, crl |-> r.crl]
             ELSE [at |-> ZeroTime, err |-> FALSE, crl |-> r.crl]

ValidCheckReadyAtExpiry(c, t) ==
    IF t >= c.na THEN [at |-> ZeroTime, err |-> TRUE, crl |-> "unchecked"]
    ELSE [at |-> ZeroTime, err |-> FALSE, crl |-> "unchecked"]

ValidCheckReady(c, t) ==
    IF t > c.na THEN [at |-> ZeroTime, err |-> TRUE, crl |-> "unchecked"]
    ELSE [at |-> ZeroTime, err |-> FALSE, crl |-> "unchecked"]

ExpiredCheckReadyAtIssue(c) == [at |-> c.nb, err |-> FALSE, crl |-> "unchecked"]

ExpiredCheckReady(c) == [at |-> c.na, err |-> FALSE, crl |-> "unchecked"]

CheckReady(d, c, t, f) ==
    CASE Role(d) = "valid" -> ValidCheckReady(c, t)
      [] Role(d) = "revoked" -> RevokedCheckReady(d, c, t, f)
      [] Role(d) = "expired" -> ExpiredCheckReady(c)

randTimeInclusive(start, end, r) ==
    LET window == Sub(end, start)
    IN  IF window <= 0 THEN start ELSE start + (r % (window + 1))

\* randTime(start, end) with r the value mathrand.Int64N draws below window.
randTime(start, end, r) ==
    LET window == Sub(end, start)
    IN  IF window <= 0 THEN start ELSE start + (r % window)

checkRenewUncapped(c, t, resp) ==
    IF resp.kind = "noARI" THEN halfTime(c)
    ELSE IF resp.kind = "err" THEN t + Hour
    ELSE randTime(resp.start, resp.end, resp.r)

\* valid.checkRenew with the answer resp of GetRenewalInfo: api.ErrNoARI,
\* another error, or a suggested window [start, end] with a retry-after.
checkRenewWith(c, t, resp) ==
    IF resp.kind = "noARI" THEN halfTime(c)
    ELSE IF resp.kind = "err" THEN t + Hour
    ELSE LET retry == t + resp.retryAfter
             renew == randTime(resp.start, resp.end, resp.r)
         IN  IF renew > retry THEN retry ELSE renew

\* valid.checkRenew.  The fault names the ARI answer: none is a server
\* without ARI; ariWin0/ariWin1 a suggested window [nb, na] with retry-after
\* one hour and the random draw 0 or 1; ariZero a zero-width window.
ValidCheckRenew(c, t, f) ==
    checkRenewWith(c, t,
        CASE f = "ariErr" ->
                [kind |-> "err", start |-> 0, end |-> 0, retryAfter |-> 0,
                 r |-> 0]
          [] f = "ariWin0" ->
                [kind |-> "ok", start |-> c.nb, end |-> c.na,
                 retryAfter |-> Hour, r |-> 0]
          [] f = "ariWin1" ->
                [kind |-> "ok", start |-> c.nb, end |-> c.na,
                 retryAfter |-> Hour, r |-> 1]
          [] f = "ariZero" ->
                [kind |-> "ok", start |-> halfTime(c), end |-> halfTime(c),
                 retryAfter |-> Hour, r |-> 0]
          [] OTHER ->
                [kind |-> "noARI", start |-> 0, end |-> 0, retryAfter |-> 0,
                 r |-> 0])

ExpiredCheckRenewAtExpiry(c) == c.na

\* expired.checkRenew: NotAfter.Add(NotAfter.Sub(NotBefore)).
ExpiredCheckRenew(c) == c.na + Sub(c.na, c.nb)

CheckRenew(d, c, t, f) ==
    CASE Role(d) = "valid" -> ValidCheckRenew(c, t, f)
      [] Role(d) = "revoked" -> halfTime(c)
      [] Role(d) = "expired" -> ExpiredCheckRenew(c)

\* ------------------------------------------------------------------- issuer
\* Environment faults a run of start can meet, one per run.
Faults == {"none",
           "keyErr", "obtainErr", "revokeErr", "certErr",
           "shortChain", "noCRLDP", "crlFetchErr", "crlSigErr",
           "ariErr", "ariWin0", "ariWin1", "ariZero",
           "mkdirErr", "renameKeyErr", "renameCertErr",
           "crashAfterKey", "crashAfterCert", "crashMidTake", "crashAfterTake"}

\* The chain the CA returns for key k ordered at time t.
Obtain(k, t, f) ==
    [key |-> k, nb |-> t, na |-> t + Lifetime, crldp |-> (f # "noCRLDP"),
     chain |-> IF f = "shortChain" THEN 1 ELSE 2]

Failed(st) == [st |-> st, ok |-> FALSE, pair |-> NoPair]

\* issueNext: StoreNextKey, Obtain, RevokeWithReason, StoreNextCert, ReadNext.
\* st is the state the run has built so far.
IssueNext(st, d, t, f) ==
    LET k == st.keyc + 1
        sk == StoreNextKey(st.slot, k, f)
        s1 == [st EXCEPT !.slot = sk.disk,
                         !.keyc = IF sk.ok THEN k ELSE @,
                         !.fired = @ \/ sk.fired]
        s1o == [s1 EXCEPT !.obtains = @ + 1]
        c == Obtain(k, t, f)
        s2 == [s1o EXCEPT !.fired = @ \/ (f \in {"noCRLDP", "shortChain"})]
        s2r == [s2 EXCEPT !.revcalls = @ + 1]
        s3 == IF ShouldRevoke(Role(d))
              THEN [s2r EXCEPT !.revs = @ \cup
                       {[dom |-> d, key |-> k, reason |-> ReasonKeyCompromise]}]
              ELSE s2
        sc == StoreNextCert(s3.slot, c, f)
        s4 == [s3 EXCEPT !.slot = sc.disk, !.fired = @ \/ sc.fired]
        r == ReadNext(s4.slot)
    IN  IF ~sk.ok THEN Failed(s1)
        ELSE IF f = "crashAfterKey" THEN Failed([s1 EXCEPT !.crashed = TRUE])
        ELSE IF f = "obtainErr" THEN Failed([s1o EXCEPT !.fired = TRUE])
        ELSE IF ShouldRevoke(Role(d)) /\ f = "revokeErr"
        THEN Failed([s2r EXCEPT !.fired = TRUE])
        ELSE IF ~sc.ok THEN Failed(s4)
        ELSE IF f = "crashAfterCert" THEN Failed([s4 EXCEPT !.crashed = TRUE])
        ELSE [st |-> s4, ok |-> r.ok, pair |-> r]

\* time.Time.After: t.After(u).
AfterOrEqual(t, u) == t >= u

After(t, u) == t > u

\* What checkReady answered, when issue got as far as calling it.
NotChecked ==
    [checked |-> FALSE, err |-> FALSE, at |-> ZeroTime, reused |-> FALSE]

\* sa is the run up to the call: it has ordered nothing when the certificate
\* checked is one ReadNext found in the slot.
Checked(rdy, sa) ==
    [checked |-> TRUE, err |-> rdy.err, at |-> rdy.at,
     reused |-> (sa.obtains = 0)]

\* What issue hands back to start, with what the run did on the way.
\* why names the call whose error issue returns.
IssueRet(st, entry, err, rerunAt, take, takePre, crlres, ready, why) ==
    [st |-> st, entry |-> entry, err |-> err, rerunAt |-> rerunAt,
     take |-> take, takePre |-> takePre, crlres |-> crlres, ready |-> ready,
     why |-> why]

\* takeNext: TakeNext (with outcome tk), then LoadCertificate.  sa is the run
\* so far and crlres what checkReady learnt from the CRL.
takeNextNoReload(sa, entry, tk, f, crlres, ready) ==
    LET stk == [sa EXCEPT !.slot = tk.disk]
    IN  IF ~tk.ok
        THEN IssueRet(stk, entry, TRUE, ZeroTime, "err", sa.slot, crlres, ready,
                      "TakeNext")
        ELSE IssueRet(stk, IF entry.loaded THEN entry
                           ELSE LoadCertificate(entry, tk.disk),
                      FALSE, ZeroTime, "ok", sa.slot, crlres, ready, "none")

takeNextEvicts(sa, entry, tk, f, crlres, ready) ==
    LET stk == [sa EXCEPT
                  !.slot = tk.disk,
                  !.fired = @ \/ (tk.stage \in {"mkdir", "renameKey"})
                               \/ (tk.stage = "renameCert" /\ f = "renameCertErr"),
                  !.crashed = (tk.stage = "renameCert" /\ f = "crashMidTake")
                               \/ (tk.stage = "done" /\ f = "crashAfterTake")]
    IN  IF ~tk.ok
        THEN IssueRet(stk, NotLoaded, TRUE, ZeroTime, "err", sa.slot, crlres,
                      ready, "TakeNext")
        ELSE IssueRet(stk, LoadCertificate(entry, tk.disk),
                      ~ReadCurrent(tk.disk).ok, ZeroTime, "ok", sa.slot, crlres,
                      ready, "none")

takeNext(sa, entry, tk, f, crlres, ready) ==
    LET stk == [sa EXCEPT
                  !.slot = tk.disk,
                  !.fired = @ \/ (tk.stage \in {"mkdir", "renameKey"})
                               \/ (tk.stage = "renameCert" /\ f = "renameCertErr"),
                  !.crashed = (tk.stage = "renameCert" /\ f = "crashMidTake")
                               \/ (tk.stage = "done" /\ f = "crashAfterTake")]
    IN  IF ~tk.ok
        THEN IssueRet(stk, entry, TRUE, ZeroTime, "err", sa.slot, crlres, ready,
                      "TakeNext")
        ELSE IssueRet(stk, LoadCertificate(entry, tk.disk),
                      ~ReadCurrent(tk.disk).ok, ZeroTime, "ok", sa.slot, crlres,
                      ready,
                      IF ReadCurrent(tk.disk).ok THEN "none"
                      ELSE "LoadCertificate")

IssueAgainSilent(n, sa, rdy, entry) ==
    IssueRet(n.st, entry, FALSE, ZeroTime, "none", sa.slot, rdy.crl,
             Checked(rdy, sa), "none")

\* issue after checkReady returned an error: n is what the second issueNext
\* came to; its error is returned if it has one, checkReady's otherwise.
IssueAgain(n, sa, rdy, entry) ==
    IssueRet(n.st, entry, TRUE, ZeroTime, "none", sa.slot, rdy.crl,
             Checked(rdy, sa), IF n.ok THEN "checkReady" ELSE "issueNext")

\* issue, from checkReady's answer rdy on: an error issues next again, a ready
\* time that has passed takes next, otherwise the run ends until rdy.at.
IssueChecked(a, rdy, entry, d, t, f) ==
    LET sa == [a.st EXCEPT !.fired = @ \/ (rdy.crl \in {"fetchErr", "sigErr"})]
    IN  IF rdy.err
        THEN IssueAgain(IssueNext(sa, d, t, f), sa, rdy, entry)
        ELSE IF After(t, rdy.at)
        THEN takeNext(sa, entry, TakeNext(sa.slot, f), f, rdy.crl,
                      Checked(rdy, sa))
        ELSE IssueRet(sa, entry, FALSE, rdy.at, "none", sa.slot, rdy.crl,
                      Checked(rdy, sa), "none")

IssueWithNoChainCheck(a, entry, d, t, f) ==
    IF ~a.ok
    THEN IssueRet(a.st, entry, TRUE, ZeroTime, "none", a.st.slot, "unchecked",
                  NotChecked, "issueNext")
    ELSE IssueChecked(a, CheckReady(d, a.pair.cert, t, f), entry, d, t, f)

\* issue, from the next certificate a on: the chain needs an issuer.
IssueWith(a, entry, d, t, f) ==
    IF ~a.ok
    THEN IssueRet(a.st, entry, TRUE, ZeroTime, "none", a.st.slot, "unchecked",
                  NotChecked, "issueNext")
    ELSE IF a.pair.cert.chain <= 1
    THEN IssueRet(a.st, entry, TRUE, ZeroTime, "none", a.st.slot, "unchecked",
                  NotChecked, "chain")
    ELSE IssueChecked(a, CheckReady(d, a.pair.cert, t, f), entry, d, t, f)

\* issue: reuse the next certificate when it reads, or issue one.
IssueAlwaysNew(st, entry, d, t, f) ==
    IssueWith(IssueNext(st, d, t, f), entry, d, t, f)

Issue(st, entry, d, t, f) ==
    IssueWith(IF ReadNext(st.slot).ok
              THEN [st |-> st, ok |-> TRUE, pair |-> ReadNext(st.slot)]
              ELSE IssueNext(st, d, t, f),
              entry, d, t, f)

\* The retry time start picks when issue returned an error.
RetryAtMinute(t) == t + Minute

RetryAt(t) == t + Hour

\* start after issue returned r: retry in an hour on an error.
Issued(r, t) ==
    [st |-> r.st, entry |-> r.entry, issued |-> TRUE, err |-> r.err,
     nextRun |-> IF r.err THEN RetryAt(t) ELSE r.rerunAt,
     take |-> r.take, takePre |-> r.takePre, crlres |-> r.crlres,
     ready |-> r.ready, why |-> r.why]

\* start: ReadCurrent, checkRenew, issue when the renewal time has passed,
\* and the time of the next run.
StartRun(d, t, f) ==
    LET dd == disk[d]
        curr == ReadCurrent(dd)
        renewAt == IF curr.ok THEN CheckRenew(d, curr.cert, t, f) ELSE ZeroTime
        st0 == [slot |-> dd, keyc |-> keyCtr[d], revs |-> {}, obtains |-> 0,
                revcalls |-> 0, crashed |-> FALSE,
                fired |-> (curr.ok /\ Role(d) = "valid"
                           /\ f \in {"ariErr", "ariWin0", "ariWin1", "ariZero"})]
    IN  IF After(t, renewAt)
        THEN Issued(Issue(st0, cache[d], d, t, f), t)
        ELSE [st |-> st0, entry |-> cache[d], issued |-> FALSE, err |-> FALSE,
              nextRun |-> renewAt,
              take |-> "none", takePre |-> dd, crlres |-> "unchecked",
              ready |-> NotChecked, why |-> "none"]

\* ------------------------------------------------------------------ actions
NoRun == [op |-> "none", dom |-> "none", issued |-> FALSE, err |-> FALSE,
          nextRun |-> ZeroTime, take |-> "none", takePre |-> EmptyDir,
          crlres |-> "unchecked", obtains |-> 0, revcalls |-> 0,
          ready |-> NotChecked, fault |-> "none", why |-> "none"]

Job(d, at) == [dom |-> d, at |-> at]

\* acme.New: one start per domain, each within the next minute.
InitialJobs(t, jit) == SetToBag({Job(d, t + jit[d]) : d \in Domains})

\* The scheduler pops the due job j; the run of start ends in RunAt(at, start).
RescheduleDropped(js, j, d, at) == js (-) SetToBag({j})

Reschedule(js, j, d, at) == (js (-) SetToBag({j})) (+) SetToBag({Job(d, at)})

Jitters == [Domains -> 0..(Minute - 1)]

\* certs.New: every configured domain gets an entry, loaded from the current
\* slot when that reads.
NewCache(dsk) == [d \in Domains |-> LoadCertificate(NotLoaded, dsk[d])]

\* Keys whose matched pair sits in the current slot are remembered.
Remember(ec, dsk) ==
    [d \in Domains |->
        ec[d] \cup (IF ReadCurrent(dsk[d]).ok THEN {dsk[d].current.key} ELSE {})]

KeysUsed(kc) ==
    kc["valid.test"] + kc["revoked.test"] + kc["expired.test"]

\* A domain without an entry in CertManager.challengeCerts.
NoChallenge == [dom |-> "", keyAuth |-> 0]

\* The issuers and the CA before anything was issued.
IssuerInit ==
    /\ disk = [d \in Domains |-> EmptyDir]
    /\ cache = NewCache([d \in Domains |-> EmptyDir])
    /\ keyCtr = [d \in Domains |-> 0]
    /\ revoked = {}
    /\ crl = {}
    /\ everCurrent = [d \in Domains |-> {}]
    /\ nfaults = 0
    /\ last = NoRun

\* scheduler.New: an empty channel, and the loop waiting in its select.
SchedInit ==
    /\ incoming = {}
    /\ pc = "select"
    /\ cancelled = FALSE
    /\ dispatched = <<>>
    /\ started = <<>>
    /\ together = {}
    /\ nextId = 1

\* storage.New on a directory without accounts; no lifecycle under way.
NeverStored == [state |-> "never", uri |-> <<>>, key |-> 0]
IdleCycle ==
    [stage |-> "idle", keyType |-> "", key |-> 0, cert |-> NoCert,
     rounds |-> 0]

StoreInit ==
    /\ accounts = [path \in {AcctPath(directory) : directory \in Directories} |->
                     NoFile]
    /\ stored = [directory \in Directories |-> NeverStored]
    /\ cycle = [d \in Domains |-> IdleCycle]

\* Both mutexes free and every goroutine before its first call.
Threads == {"issuer", "reader", "hello", "acct1", "acct2"}
IdleThread == [pc |-> "idle", rounds |-> 0, a |-> NotLoaded, b |-> NotLoaded]

LockInit ==
    /\ mu = [store |-> "free", certs |-> "free"]
    /\ thr = [t \in Threads |-> IdleThread]

\* certs.New: an empty challenge map.
ChallengeInit ==
    /\ challengeCerts = [d \in ServerNames |-> NoChallenge]
    /\ presented = [d \in ServerNames |-> NoChallenge]

Init ==
    /\ now = 1
    /\ jobs \in {InitialJobs(1, jit) : jit \in Jitters}
    /\ IssuerInit
    /\ SchedInit
    /\ ChallengeInit
    /\ StoreInit
    /\ LockInit
    /\ probe = [op |-> "none"]

\* The clock advances.  The scheduler's timer fires when the earliest job is
\* due, so no job is left waiting for more than one clock unit.
Tick ==
    /\ now < MaxTime
    /\ \A j \in BagToSet(jobs) : ~(j.at < now)
    /\ now' = now + 1
    /\ last' = NoRun
    /\ UNCHANGED <<disk, cache, jobs, keyCtr, revoked, crl, everCurrent,
                   nfaults, schedVars, challengeVars, storeVars, lockVars, probe>>

\* The CA publishes a CRL listing every certificate revoked so far.
PublishCRL ==
    /\ crl # {<<r.dom, r.key>> : r \in revoked}
    /\ crl' = {<<r.dom, r.key>> : r \in revoked}
    /\ last' = NoRun
    /\ UNCHANGED <<now, disk, cache, jobs, keyCtr, revoked, everCurrent,
                   nfaults, schedVars, challengeVars, storeVars, lockVars, probe>>

\* The process dies between runs and main starts it again on the same disk.
Crash ==
    /\ nfaults < MaxFaults
    /\ nfaults' = nfaults + 1
    /\ cache' = NewCache(disk)
    /\ \E jit \in Jitters : jobs' = InitialJobs(now, jit)
    /\ last' = NoRun
    /\ UNCHANGED <<now, disk, keyCtr, revoked, crl, everCurrent,
                   schedVars, challengeVars, storeVars, lockVars, probe>>

\* Whether the run met its fault or crashed.
Injected(st) == IF st.fired \/ st.crashed THEN 1 ELSE 0

\* What a run R of start for domain d, popped as job j, leaves behind.
\* A run that crashes leaves its files behind and the process restarts, its
\* initial jobs drawn with the jitter jit.
StartPost(d, f, j, R, jit) ==
    LET dsk == InDomainDir(disk, d, R.st.slot)
    IN  [disk |-> dsk,
         keyCtr |-> [keyCtr EXCEPT ![d] = R.st.keyc],
         revoked |-> revoked \cup R.st.revs,
         everCurrent |-> Remember(everCurrent, dsk),
         nfaults |-> nfaults + Injected(R.st),
         cache |-> IF R.st.crashed THEN NewCache(dsk)
                   ELSE [cache EXCEPT ![d] = R.entry],
         jobs |-> IF R.st.crashed THEN InitialJobs(now, jit)
                  ELSE Reschedule(jobs, j, d, R.nextRun),
         last |-> IF R.st.crashed THEN NoRun
                  ELSE [op |-> "start", dom |-> d,
                        issued |-> R.issued, err |-> R.err,
                        nextRun |-> R.nextRun, take |-> R.take,
                        takePre |-> R.takePre, crlres |-> R.crlres,
                        obtains |-> R.st.obtains,
                        revcalls |-> R.st.revcalls,
                        ready |-> R.ready, fault |-> f, why |-> R.why]]

Becomes(P) ==
    /\ disk' = P.disk
    /\ keyCtr' = P.keyCtr
    /\ revoked' = P.revoked
    /\ everCurrent' = P.everCurrent
    /\ nfaults' = P.nfaults
    /\ cache' = P.cache
    /\ jobs' = P.jobs
    /\ last' = P.last
    /\ UNCHANGED <<schedVars, challengeVars, storeVars, lockVars, probe>>

StartApply(d, f, j, R) ==
    \E jit \in Jitters : Becomes(StartPost(d, f, j, R, jit))

\* A run within the budgets of keys and faults; the fault named is one the
\* run met.
StartEffect(d, f, j, R) ==
    /\ (f # "none") => (R.st.fired \/ R.st.crashed)
    /\ KeysUsed([keyCtr EXCEPT ![d] = R.st.keyc]) <= MaxKeys
    /\ nfaults + Injected(R.st) <= MaxFaults
    /\ StartApply(d, f, j, R)

\* The scheduler pops the heap minimum once it is due and runs it: a start job
\* of domain d, whose run meets fault f.
Start(d, f) ==
    \E j \in BagToSet(jobs) :
        /\ j.dom = d
        /\ ~(now < j.at)
        /\ \A j2 \in BagToSet(jobs) : ~(j2.at < j.at)
        /\ StartEffect(d, f, j, StartRun(d, now, f))
        /\ UNCHANGED <<now, crl>>

Next ==
    \/ Tick
    \/ PublishCRL
    \/ Crash
    \/ \E d \in Domains, f \in Faults : Start(d, f)

Spec == Init /\ [][Next]_vars

\* ------------------------------------------------- the fault-free daemon
\* The daemon with a CA that issues and revokes on request, a CRL that lists
\* a revocation before the clock moves on, and no crash.  The clock runs long
\* enough for three lifetimes after the last initial start.
LiveMaxTime == Minute + (3 * Lifetime) + CheckInterval + 4

LiveTick ==
    /\ now < LiveMaxTime
    /\ \A j \in BagToSet(jobs) : ~(j.at < now)
    /\ crl = {<<r.dom, r.key>> : r \in revoked}
    /\ now' = now + 1
    /\ last' = NoRun
    /\ UNCHANGED <<disk, cache, jobs, keyCtr, revoked, crl, everCurrent,
                   nfaults, schedVars, challengeVars, storeVars, lockVars, probe>>

LiveStart(d) ==
    \E j \in BagToSet(jobs) :
        /\ j.dom = d
        /\ ~(now < j.at)
        /\ \A j2 \in BagToSet(jobs) : ~(j2.at < j.at)
        /\ StartApply(d, "none", j, StartRun(d, now, "none"))
        /\ UNCHANGED <<now, crl>>

\* Whether a run of start for d is due and would change the state.
LiveStartDue(d) ==
    \E j \in BagToSet(jobs), jit \in Jitters :
        /\ j.dom = d
        /\ ~(now < j.at)
        /\ \A j2 \in BagToSet(jobs) : ~(j2.at < j.at)
        /\ StartPost(d, "none", j, StartRun(d, now, "none"), jit)
              # [disk |-> disk, keyCtr |-> keyCtr, revoked |-> revoked,
                 everCurrent |-> everCurrent, nfaults |-> nfaults,
                 cache |-> cache, jobs |-> jobs, last |-> last]

LiveNext ==
    \/ LiveTick
    \/ PublishCRL
    \/ \E d \in Domains : LiveStart(d)

\* The scheduler dispatches every due job (weak fairness of each LiveStart(d),
\* with its enabling condition written out), the CA publishes its CRL, and
\* the clock advances.
LiveSpec ==
    /\ Init
    /\ [][LiveNext]_vars
    /\ WF_vars(LiveTick)
    /\ WF_vars(PublishCRL)
    /\ \A d \in Domains :
          []<>(~LiveStartDue(d)) \/ []<><<LiveStart(d)>>_vars

\* ---------------------------------------------------------------- scheduler
\* The scheduler on its own: callers submit jobs through RunIn, the goroutine
\* running loop receives them, waits for the timer of the heap minimum and
\* executes what is due; each task runs on a goroutine of its own.  A job is
\* known by the order of its submission.
job(id, at) == [id |-> id, at |-> at]

LessReversed(a, b) == b.at < a.at

\* jobHeap.Less
Less(a, b) == a.at < b.at

\* (*s.jobs)[0], the heap minimum: a job no other job is Less than.
HeapMin(h) == {j \in BagToSet(h) : \A k \in BagToSet(h) : ~Less(k, j)}

DueAlways(j, t) == TRUE

DueNever(j, t) == FALSE

\* execute's test of the heap minimum: not time.Now().Before(at).
Due(j, t) == ~(t < j.at)

\* The delays callers hand to RunIn; a negative delay is a time in the past.
Delays == (0 - 1)..MaxDelay

\* RunAt: the caller blocks sending the job on the unbuffered channel.
RunAt(at) ==
    /\ nextId <= MaxJobs
    /\ incoming' = incoming \cup {job(nextId, at)}
    /\ nextId' = nextId + 1
    /\ UNCHANGED <<now, jobs, issuerVars, challengeVars, storeVars, lockVars, probe,
                   pc, cancelled,
                   dispatched, started, together>>

\* RunIn
RunIn(in) == RunAt(now + in)

\* The pairs a job pushed into the heap h forms with the jobs already there.
Meets(j, h) ==
    {<<j.id, k.id>> : k \in BagToSet(h)} \cup
    {<<k.id, j.id>> : k \in BagToSet(h)}

\* loop, case j := <-s.incoming: the send of one blocked caller completes and
\* the job is pushed.
loopReceive ==
    /\ pc = "select"
    /\ \E j \in incoming :
          /\ incoming' = incoming \ {j}
          /\ jobs' = jobs (+) SetToBag({j})
          /\ together' = together \cup Meets(j, jobs)
    /\ UNCHANGED <<now, issuerVars, challengeVars, storeVars, lockVars, probe,
                   pc, cancelled, dispatched,
                   started, nextId>>

\* loop, case <-next: the timer set for the heap minimum has fired.
loopTimer ==
    /\ pc = "select"
    /\ \E j \in HeapMin(jobs) : ~(now < j.at)
    /\ pc' = "execute"
    /\ UNCHANGED <<now, jobs, issuerVars, challengeVars, storeVars, lockVars, probe,
                   incoming, cancelled,
                   dispatched, started, together, nextId>>

\* loop, case <-ctx.Done(): the loop returns.
loopDone ==
    /\ pc = "select"
    /\ cancelled
    /\ pc' = "stopped"
    /\ UNCHANGED <<now, jobs, issuerVars, challengeVars, storeVars, lockVars, probe,
                   incoming, cancelled,
                   dispatched, started, together, nextId>>

\* What execute records of a job it pops.
Dispatch(j) ==
    [id |-> j.id, at |-> j.at, when |-> now, cancelled |-> cancelled]

\* execute, one turn of its loop: the heap minimum is due, it is popped and
\* its task is given a goroutine.
executePop ==
    /\ pc = "execute"
    /\ \E j \in HeapMin(jobs) :
          /\ Due(j, now)
          /\ jobs' = jobs (-) SetToBag({j})
          /\ dispatched' = Append(dispatched, Dispatch(j))
    /\ UNCHANGED <<now, issuerVars, challengeVars, storeVars, lockVars, probe,
                   incoming, pc, cancelled,
                   started, together, nextId>>

\* execute returns: the heap is empty or its minimum is in the future.
executeReturn ==
    /\ pc = "execute"
    /\ \A j \in HeapMin(jobs) : ~Due(j, now)
    /\ pc' = "select"
    /\ UNCHANGED <<now, jobs, issuerVars, challengeVars, storeVars, lockVars, probe,
                   incoming, cancelled,
                   dispatched, started, together, nextId>>

\* The goroutine of a dispatched task begins to run it.
taskBegin(i) ==
    /\ i \in 1..Len(dispatched)
    /\ \A k \in 1..Len(started) : started[k].id # dispatched[i].id
    /\ started' = Append(started, dispatched[i])
    /\ UNCHANGED <<now, jobs, issuerVars, challengeVars, storeVars, lockVars, probe,
                   incoming, pc,
                   cancelled, dispatched, together, nextId>>

\* The context handed to scheduler.New is cancelled.
cancel ==
    /\ ~cancelled
    /\ cancelled' = TRUE
    /\ UNCHANGED <<now, jobs, issuerVars, challengeVars, storeVars, lockVars, probe,
                   incoming, pc,
                   dispatched, started, together, nextId>>

SchedTick ==
    /\ now < MaxSchedTime
    /\ now' = now + 1
    /\ UNCHANGED <<jobs, issuerVars, schedVars, challengeVars, storeVars, lockVars, probe>>

SchedStart ==
    /\ now = 1
    /\ jobs = EmptyBag
    /\ IssuerInit
    /\ SchedInit
    /\ ChallengeInit
    /\ StoreInit
    /\ LockInit
    /\ probe = [op |-> "none"]

SchedNext ==
    \/ SchedTick
    \/ \E in \in Delays : RunIn(in)
    \/ loopReceive
    \/ loopTimer
    \/ loopDone
    \/ executePop
    \/ executeReturn
    \/ \E i \in 1..MaxJobs : taskBegin(i)
    \/ cancel

\* The goroutine running loop is scheduled whenever it can take a step; the
\* clock is not required to advance.
SchedSpec ==
    /\ SchedStart
    /\ [][SchedNext]_vars
    /\ WF_vars(loopReceive)
    /\ WF_vars(loopTimer)
    /\ WF_vars(executePop)
    /\ WF_vars(executeReturn)

\* ------------------------------------------------------------ challenge map
\* The CertManager as the TLS-ALPN-01 challenge provider: the ACME client
\* calls Present and CleanUp while the listener answers client hellos.

\* tlsalpn01.ChallengeCert: the self-signed certificate for a domain and a
\* key authorization.
ChallengeCert(d, keyAuth) == [dom |-> d, keyAuth |-> keyAuth]

\* The ALPN lists client hellos carry.
AlpnLists ==
    {<<>>, <<"acme-tls/1">>, <<"h2">>, <<"acme-tls/1", "h2">>,
     <<"h2", "acme-tls/1">>, <<"acme-tls/1", "acme-tls/1">>}

isACMEOffered(protos) == \E i \in 1..Len(protos) : protos[i] = "acme-tls/1"

\* GetCertificate's isACME.
isACME(protos) == Len(protos) = 1 /\ protos[1] = "acme-tls/1"

NoHello == [ok |-> FALSE, from |-> "none", challenge |-> NoChallenge,
            key |-> 0, cert |-> NoCert]

\* GetCertificate of the CertManager that answers challenges: the challenge
\* map for an ACME hello, the served map for any other.
GetCertificateHello(sni, protos) ==
    IF isACME(protos)
    THEN IF challengeCerts[sni] = NoChallenge THEN NoHello
         ELSE [ok |-> TRUE, from |-> "challengeCerts",
               challenge |-> challengeCerts[sni], key |-> 0, cert |-> NoCert]
    ELSE IF sni \notin DOMAIN cache THEN NoHello
    ELSE IF ~cache[sni].loaded THEN NoHello
    ELSE [ok |-> TRUE, from |-> "certs", challenge |-> NoChallenge,
          key |-> cache[sni].key, cert |-> cache[sni].cert]

\* Present: the challenge certificate is created and stored, or its
\* creation fails and the map is left alone.
Present(d, keyAuth) ==
    /\ \E ok \in BOOLEAN :
          IF ok
          THEN /\ challengeCerts' =
                     [challengeCerts EXCEPT ![d] = ChallengeCert(d, keyAuth)]
               /\ presented' =
                     [presented EXCEPT ![d] = ChallengeCert(d, keyAuth)]
          ELSE UNCHANGED <<challengeCerts, presented>>
    /\ UNCHANGED <<now, jobs, issuerVars, schedVars, storeVars, lockVars, probe>>

\* CleanUp: delete(c.challengeCerts, domain).
CleanUp(d) ==
    /\ challengeCerts' = [challengeCerts EXCEPT ![d] = NoChallenge]
    /\ presented' = [presented EXCEPT ![d] = NoChallenge]
    /\ UNCHANGED <<now, jobs, issuerVars, schedVars, storeVars, lockVars, probe>>

\* The current slot of a domain whose certificate was issued and promoted
\* before the process started.
StockedDir ==
    [next |-> EmptySlot,
     current |-> [key |-> 1, cert |-> Obtain(1, 1, "none")]]

\* certs.New on a directory where the domains in S hold a current pair.
ChallengeStart ==
    /\ now = 1
    /\ jobs = EmptyBag
    /\ \E S \in SUBSET Domains :
          /\ disk = [d \in Domains |-> IF d \in S THEN StockedDir ELSE EmptyDir]
          /\ cache = NewCache([d \in Domains |->
                                  IF d \in S THEN StockedDir ELSE EmptyDir])
          /\ keyCtr = [d \in Domains |-> IF d \in S THEN 1 ELSE 0]
          /\ everCurrent = [d \in Domains |-> IF d \in S THEN {1} ELSE {}]
    /\ revoked = {}
    /\ crl = {}
    /\ nfaults = 0
    /\ last = NoRun
    /\ SchedInit
    /\ ChallengeInit
    /\ StoreInit
    /\ LockInit
    /\ probe = [op |-> "none"]

ChallengeNext ==
    \/ \E d \in ServerNames, keyAuth \in 1..MaxKeyAuth : Present(d, keyAuth)
    \/ \E d \in ServerNames : CleanUp(d)

ChallengeSpec == ChallengeStart /\ [][ChallengeNext]_vars

\* ------------------------------------------------------ the Storage alone
\* The calls of Storage made one after another on a fresh directory, as the
\* issuer and acme.New make them; cycle and stored remember what the calls so
\* far have written.
AccountKeys == 1..MaxAccountKeys

\* The account URI the CA of a directory answers a registration of key n with.
Register(directory, n) == <<directory, "acct", n>>

Fault(f) ==
    /\ f # "none" => nfaults < MaxFaults
    /\ nfaults' = IF f # "none" THEN nfaults + 1 ELSE nfaults

\* s.StoreNextKey(domain, keyType).
StoreKey(d, keyType, f) ==
    LET r == StoreNextKeyOfType(disk[d], keyType, keyCtr[d] + 1, f)
    IN  /\ KeysUsed(keyCtr) < MaxKeys
        /\ Fault(f)
        /\ disk' = InDomainDir(disk, d, r.disk)
        /\ keyCtr' = IF r.ok THEN [keyCtr EXCEPT ![d] = @ + 1] ELSE keyCtr
        /\ cycle' = IF r.ok
                    THEN [cycle EXCEPT ![d] =
                             [stage |-> "key", keyType |-> keyType,
                              key |-> r.disk.next.key, cert |-> NoCert,
                              rounds |-> @.rounds]]
                    ELSE cycle
        /\ UNCHANGED <<now, jobs, cache, revoked, crl, everCurrent, last,
                       schedVars, challengeVars, accounts, stored, lockVars, probe>>

\* s.StoreNextCert(domain, cert) with a chain for the key k.
StoreCert(d, k, f) ==
    LET r == StoreNextCert(disk[d], Obtain(k, now, "none"), f)
    IN  /\ Fault(f)
        /\ disk' = InDomainDir(disk, d, r.disk)
        /\ cycle' = IF ~r.ok THEN cycle
                    ELSE IF cycle[d].stage \in {"key", "cert"}
                            /\ k = cycle[d].key
                    THEN [cycle EXCEPT ![d].stage = "cert",
                                       ![d].cert = r.disk.next.cert]
                    ELSE [cycle EXCEPT ![d].stage = "idle"]
        /\ UNCHANGED <<now, jobs, cache, keyCtr, revoked, crl, everCurrent,
                       last, schedVars, challengeVars, accounts, stored,
                       lockVars, probe>>

\* s.TakeNext(domain).
Take(d, f) ==
    LET r == TakeNext(disk[d], f)
    IN  /\ Fault(f)
        /\ disk' = InDomainDir(disk, d, r.disk)
        /\ cycle' = IF r.disk = disk[d] THEN cycle
                    ELSE IF r.ok /\ cycle[d].stage = "cert"
                    THEN [cycle EXCEPT ![d].stage = "taken",
                                       ![d].rounds = @ + 1]
                    ELSE [cycle EXCEPT ![d].stage = "idle"]
        /\ UNCHANGED <<now, jobs, cache, keyCtr, revoked, crl, everCurrent,
                       last, schedVars, challengeVars, accounts, stored,
                       lockVars, probe>>

\* s.StoreACME(directory, accountURI, key).
StoreAccount(directory, accountURI, key, f) ==
    LET r == StoreACME(accounts, directory, accountURI, key, f)
    IN  /\ Fault(f)
        /\ accounts' = r.accounts
        /\ stored' = IF r.ok
                     THEN [stored EXCEPT ![directory] =
                              [state |-> "stored", uri |-> accountURI,
                               key |-> key]]
                     ELSE IF r.accounts # accounts
                     THEN [stored EXCEPT ![directory] =
                              [NeverStored EXCEPT !.state = "torn"]]
                     ELSE stored
        /\ UNCHANGED <<now, jobs, disk, cache, keyCtr, revoked, crl,
                       everCurrent, last, schedVars, challengeVars, cycle,
                       lockVars, probe>>

StoreStart ==
    /\ now = 1
    /\ jobs = EmptyBag
    /\ IssuerInit
    /\ SchedInit
    /\ ChallengeInit
    /\ StoreInit
    /\ LockInit
    /\ probe = [op |-> "none"]

StoreNext ==
    \/ \E d \in Domains, keyType \in KeyTypes \cup {"ed25519"}, f \in {"none", "keyErr"} :
          StoreKey(d, keyType, f)
    \/ \E d \in Domains, f \in {"none", "certErr"} :
          \E k \in {disk[d].next.key, disk[d].current.key} \ {0} :
             StoreCert(d, k, f)
    \/ \E d \in Domains,
          f \in {"none", "mkdirErr", "renameKeyErr", "renameCertErr"} :
          Take(d, f)

StoreSpec == StoreStart /\ [][StoreNext]_vars

\* The account calls alone, as acme.New makes them for its directory.
AccountNext ==
    \E directory \in Directories, n \in AccountKeys,
       f \in {"none", "acctMkdirErr", "acctOpenErr", "acctEncodeErr"} :
       StoreAccount(directory, Register(directory, n), n, f)

AccountSpec == StoreStart /\ [][AccountNext]_vars

\* ------------------------------------------------ goroutines and mutexes
\* The issuer of one domain, a second reader of the store, a TLS handshake
\* and two callers of StoreACME run side by side; every step below is one
\* lock operation, one file operation or one access to the certs map.
LockDomain == "valid.test"
LockDirectory == "https://ca-a.test/dir"
AcctThreads == {"acct1", "acct2"}
AcctKeyOf(t) == IF t = "acct1" THEN 1 ELSE 2

lockRest ==
    <<now, jobs, revoked, crl, everCurrent, nfaults, last, schedVars,
      challengeVars, stored, cycle, probe>>

FreeAlways(m) == TRUE

\* sync.Mutex: Lock returns only while no goroutine holds the mutex.
Free(m) == mu[m] = "free"

Lock(t, m, from, to) ==
    /\ thr[t].pc = from
    /\ Free(m)
    /\ mu' = [mu EXCEPT ![m] = t]
    /\ thr' = [thr EXCEPT ![t].pc = to]
    /\ UNCHANGED <<disk, cache, keyCtr, accounts, lockRest>>

Unlock(t, m, from, to) ==
    /\ thr[t].pc = from
    /\ mu' = [mu EXCEPT ![m] = "free"]
    /\ thr' = [thr EXCEPT ![t].pc = to]
    /\ UNCHANGED <<disk, cache, keyCtr, accounts, lockRest>>

\* issueNext begins: StoreNextKey locks s.mu.
issueNextLock(t) ==
    /\ thr[t].rounds < MaxRounds
    /\ Lock(t, "store", "idle", "snk")

\* StoreNextKey writes next/private.pem.
writeNextKey(t) ==
    /\ thr[t].pc = "snk"
    /\ disk' = [disk EXCEPT ![LockDomain] =
                   StoreNextKey(disk[LockDomain], keyCtr[LockDomain] + 1,
                                "none").disk]
    /\ keyCtr' = [keyCtr EXCEPT ![LockDomain] = @ + 1]
    /\ thr' = [thr EXCEPT ![t].pc = "snk.out"]
    /\ UNCHANGED <<mu, cache, accounts, lockRest>>

\* StoreNextCert writes next/certificate.pem with the chain the CA returned
\* for the key in next.
writeNextCert(t) ==
    /\ thr[t].pc = "snc"
    /\ disk' = [disk EXCEPT ![LockDomain] =
                   StoreNextCert(disk[LockDomain],
                                 Obtain(disk[LockDomain].next.key, now, "none"),
                                 "none").disk]
    /\ thr' = [thr EXCEPT ![t].pc = "snc.out"]
    /\ UNCHANGED <<mu, cache, keyCtr, accounts, lockRest>>

\* TakeNext: os.Rename of the key file.
renameKey(t) ==
    /\ thr[t].pc = "take.key"
    /\ disk' = [disk EXCEPT ![LockDomain] =
                   TakeNext(disk[LockDomain], "renameCertErr").disk]
    /\ thr' = [thr EXCEPT ![t].pc = "take.cert"]
    /\ UNCHANGED <<mu, cache, keyCtr, accounts, lockRest>>

\* TakeNext: os.Rename of the certificate file.
renameCert(t) ==
    /\ thr[t].pc = "take.cert"
    /\ disk' = [disk EXCEPT ![LockDomain] =
                   [disk[LockDomain] EXCEPT
                       !.current.cert = disk[LockDomain].next.cert,
                       !.next.cert = NoCert]]
    /\ thr' = [thr EXCEPT ![t].pc = "take.out"]
    /\ UNCHANGED <<mu, cache, keyCtr, accounts, lockRest>>

\* Storage.read: tls.LoadX509KeyPair reads the certificate file ...
readCertFile(t, from, to) ==
    /\ thr[t].pc = from
    /\ thr' = [thr EXCEPT ![t].pc = to,
                          ![t].a = [loaded |-> FALSE, key |-> 0,
                                    cert |-> disk[LockDomain].current.cert]]
    /\ UNCHANGED <<mu, disk, cache, keyCtr, accounts, lockRest>>

\* ... and then the key file.
readKeyFile(t, from, to) ==
    /\ thr[t].pc = from
    /\ thr' = [thr EXCEPT ![t].pc = to,
                          ![t].a = [loaded |-> TRUE,
                                    key |-> disk[LockDomain].current.key,
                                    cert |-> thr[t].a.cert]]
    /\ UNCHANGED <<mu, disk, cache, keyCtr, accounts, lockRest>>

\* LoadCertificate: cert.Certificate = &currCert, one pointer store.
assign(t) ==
    /\ thr[t].pc = "assign"
    /\ cache' = [cache EXCEPT ![LockDomain] = thr[t].a]
    /\ thr' = [thr EXCEPT ![t].pc = "assign.out", ![t].rounds = @ + 1]
    /\ UNCHANGED <<mu, disk, keyCtr, accounts, lockRest>>

\* GetCertificate: the nil check of cert.Certificate.
nilCheck(t) ==
    /\ thr[t].pc = "gc.nil"
    /\ thr' = IF cache[LockDomain].loaded
              THEN [thr EXCEPT ![t].pc = "gc.leaf"]
              ELSE [thr EXCEPT ![t].pc = "gc.out", ![t].a = NotLoaded,
                               ![t].b = NotLoaded]
    /\ UNCHANGED <<mu, disk, cache, keyCtr, accounts, lockRest>>

\* GetCertificate: time.Now().After(cert.Leaf.NotAfter); a keeps the tuple
\* whose leaf was examined.
expiryCheck(t) ==
    /\ thr[t].pc = "gc.leaf"
    /\ thr' = IF now > cache[LockDomain].cert.na
              THEN [thr EXCEPT ![t].pc = "gc.out",
                               ![t].a = cache[LockDomain], ![t].b = NotLoaded]
              ELSE [thr EXCEPT ![t].pc = "gc.ret",
                               ![t].a = cache[LockDomain]]
    /\ UNCHANGED <<mu, disk, cache, keyCtr, accounts, lockRest>>

\* GetCertificate: return cert.Certificate; b keeps the tuple returned.
returnCert(t) ==
    /\ thr[t].pc = "gc.ret"
    /\ thr' = [thr EXCEPT ![t].pc = "gc.out", ![t].b = cache[LockDomain]]
    /\ UNCHANGED <<mu, disk, cache, keyCtr, accounts, lockRest>>

\* StoreACME: os.OpenFile with O_TRUNC; no mutex is taken.
openTrunc(t) ==
    /\ thr[t].pc = "idle"
    /\ accounts' = [accounts EXCEPT ![AcctPath(LockDirectory)] = CutFile]
    /\ thr' = [thr EXCEPT ![t].pc = "sa.encode"]
    /\ UNCHANGED <<mu, disk, cache, keyCtr, lockRest>>

\* StoreACME: json Encode into the open file.
encode(t) ==
    /\ thr[t].pc = "sa.encode"
    /\ accounts' = StoreACME(accounts, LockDirectory,
                             Register(LockDirectory, AcctKeyOf(t)),
                             AcctKeyOf(t), "none").accounts
    /\ thr' = [thr EXCEPT ![t].pc = "done"]
    /\ UNCHANGED <<mu, disk, cache, keyCtr, lockRest>>

\* The issuer with a LoadCertificate that locks c.mu before ReadCurrent.
IssuerReadsUnderCacheLock(t) ==
    \/ issueNextLock(t)
    \/ writeNextKey(t)
    \/ Unlock(t, "store", "snk.out", "obtained")
    \/ Lock(t, "store", "obtained", "snc")
    \/ writeNextCert(t)
    \/ Unlock(t, "store", "snc.out", "staged")
    \/ Lock(t, "store", "staged", "take.key")
    \/ renameKey(t)
    \/ renameCert(t)
    \/ Unlock(t, "store", "take.out", "taken")
    \/ Lock(t, "certs", "taken", "loaded")
    \/ Lock(t, "store", "loaded", "load.cert")
    \/ readCertFile(t, "load.cert", "load.key")
    \/ readKeyFile(t, "load.key", "load.out")
    \/ Unlock(t, "store", "load.out", "assign")
    \/ assign(t)
    \/ Unlock(t, "certs", "assign.out", "idle")

Issuer(t) ==
    \/ issueNextLock(t)
    \/ writeNextKey(t)
    \/ Unlock(t, "store", "snk.out", "obtained")
    \/ Lock(t, "store", "obtained", "snc")
    \/ writeNextCert(t)
    \/ Unlock(t, "store", "snc.out", "staged")
    \/ Lock(t, "store", "staged", "take.key")
    \/ renameKey(t)
    \/ renameCert(t)
    \/ Unlock(t, "store", "take.out", "taken")
    \/ Lock(t, "store", "taken", "load.cert")
    \/ readCertFile(t, "load.cert", "load.key")
    \/ readKeyFile(t, "load.key", "load.out")
    \/ Unlock(t, "store", "load.out", "loaded")
    \/ Lock(t, "certs", "loaded", "assign")
    \/ assign(t)
    \/ Unlock(t, "certs", "assign.out", "idle")

\* Another goroutine calling ReadCurrent for the domain.
Reader(t) ==
    \/ Lock(t, "store", "idle", "rc.cert")
    \/ readCertFile(t, "rc.cert", "rc.key")
    \/ readKeyFile(t, "rc.key", "rc.out")
    \/ Unlock(t, "store", "rc.out", "idle")

\* The TLS listener calling GetCertificate for the domain.
Hello(t) ==
    \/ Lock(t, "certs", "idle", "gc.nil")
    \/ nilCheck(t)
    \/ expiryCheck(t)
    \/ returnCert(t)
    \/ Unlock(t, "certs", "gc.out", "idle")

LockNext ==
    \/ Issuer("issuer")
    \/ Reader("reader")
    \/ Hello("hello")
    \/ \E t \in AcctThreads : openTrunc(t)
    \/ \E t \in AcctThreads : encode(t)

LockSpec == StoreStart /\ [][LockNext]_vars

\* ---------------------------------------------- the checkers on their own
\* One call of a checker, of halfTime or of LoadCertificate, with arguments
\* taken from bounded sets; probe keeps the arguments and the answer.
Leaves ==
    [key : {1}, nb : 0..MaxLeafTime, na : 0..MaxLeafTime, crldp : BOOLEAN,
     chain : {2}]

\* What GetRenewalInfo may answer.
RenewalInfos ==
    [kind : {"ok"}, start : 0..MaxLeafTime, end : 0..MaxLeafTime,
     retryAfter : 0..Hour, r : 0..MaxDraw]
    \cup [kind : {"noARI", "err"}, start : {0}, end : {0}, retryAfter : {0},
          r : {0}]

\* revoked.checkReady(cert, issuer) at time.Now() = now.
callRevokedCheckReady(c, f) ==
    /\ probe' = [op |-> "revoked.checkReady", c |-> c, t |-> now, f |-> f,
                 listed |-> (<<"revoked.test", c.key>> \in crl),
                 out |-> RevokedCheckReady("revoked.test", c, now, f),
                 revoke |-> ShouldRevoke("revoked")]
    /\ UNCHANGED <<now, jobs, issuerVars, schedVars, challengeVars, storeVars,
                   lockVars>>

\* valid.checkReady(cert) at time.Now() = now.
callValidCheckReady(c) ==
    /\ probe' = [op |-> "valid.checkReady", c |-> c, t |-> now,
                 out |-> ValidCheckReady(c, now),
                 revoke |-> ShouldRevoke("valid")]
    /\ UNCHANGED <<now, jobs, issuerVars, schedVars, challengeVars, storeVars,
                   lockVars>>

\* valid.checkRenew(cert) at time.Now() = now, the ARI client answering resp.
callValidCheckRenew(c, resp) ==
    /\ probe' = [op |-> "valid.checkRenew", c |-> c, t |-> now,
                 resp |-> resp, out |-> checkRenewWith(c, now, resp)]
    /\ UNCHANGED <<now, jobs, issuerVars, schedVars, challengeVars, storeVars,
                   lockVars>>

\* expired.checkReady(cert), expired.checkRenew(cert), expired.shouldRevoke().
callExpired(c) ==
    /\ probe' = [op |-> "expired", c |-> c, t |-> now,
                 out |-> ExpiredCheckReady(c), renew |-> ExpiredCheckRenew(c),
                 revoke |-> ShouldRevoke("expired")]
    /\ UNCHANGED <<now, jobs, issuerVars, schedVars, challengeVars, storeVars,
                   lockVars>>

\* halfTime of the certificate FuzzHalfTime builds: NotBefore = t,
\* NotAfter = t.Add(delta).Add(delta); and revoked.checkRenew of it.
callHalfTime(t, delta) ==
    LET c == [key |-> 1, nb |-> t, na |-> (t + delta) + delta,
              crldp |-> TRUE, chain |-> 2]
    IN  /\ probe' = [op |-> "halfTime", c |-> c, t |-> t, delta |-> delta,
                     out |-> halfTime(c),
                     renew |-> CheckRenew("revoked.test", c, now, "none")]
        /\ UNCHANGED <<now, jobs, issuerVars, schedVars, challengeVars,
                       storeVars, lockVars>>

\* c.LoadCertificate(domain) on a map certs and a storage directory dsk.
callLoadCertificate(certs, domain, dsk) ==
    /\ probe' = [op |-> "LoadCertificate", certs |-> certs, domain |-> domain,
                 dsk |-> dsk, out |-> LoadCertificateIn(certs, domain, dsk)]
    /\ UNCHANGED <<now, jobs, issuerVars, schedVars, challengeVars, storeVars,
                   lockVars>>

\* Any clock value; the CA's CRL lists the serial of the leaves or not.
ProbeStart ==
    /\ now \in 1..MaxTime
    /\ jobs = EmptyBag
    /\ disk = [d \in Domains |-> EmptyDir]
    /\ cache = NewCache([d \in Domains |-> EmptyDir])
    /\ keyCtr = [d \in Domains |-> 0]
    /\ crl \in SUBSET {<<"revoked.test", 1>>}
    /\ revoked = crl
    /\ everCurrent = [d \in Domains |-> {}]
    /\ nfaults = 0
    /\ last = NoRun
    /\ SchedInit
    /\ ChallengeInit
    /\ StoreInit
    /\ LockInit
    /\ probe = [op |-> "none"]

\* A single call is made, from the state ProbeStart describes.
ProbeNext ==
    /\ probe.op = "none"
    /\ \/ \E c \in Leaves, f \in {"none", "crlFetchErr", "crlSigErr"} :
             callRevokedCheckReady(c, f)
       \/ \E c \in Leaves : callValidCheckReady(c)
       \/ \E c \in Leaves, resp \in RenewalInfos :
             c.crldp /\ callValidCheckRenew(c, resp)
       \/ \E c \in Leaves : callExpired(c)
       \/ \E t \in 0..MaxLeafTime, delta \in (0 - MaxDuration - 1)..MaxDuration :
             callHalfTime(t, delta)
       \/ \E domain \in ServerNames :
             \E certs \in [Domains ->
                              {NotLoaded,
                               [loaded |-> TRUE, key |-> 3,
                                cert |-> Obtain(3, 0, "none")]}] :
                \E dsk \in [ServerNames ->
                               {EmptyDir, StockedDir,
                                [StockedDir EXCEPT !.current.key = 2]}] :
                   callLoadCertificate(
                       [d \in Domains |->
                           [shouldBeExpired |-> ShouldBeExpired(d),
                            material |-> certs[d]]],
                       domain, dsk)

ProbeSpec == ProbeStart /\ [][ProbeNext]_vars

\* ------------------------------------------------------------------- claims
JobsOf(d) == {j \in BagToSet(jobs) : j.dom = d}

\* C1: GetCertificate for a non-ACME hello returns material only for a
\* configured domain whose entry is loaded and whose leaf's expiry
\* (now > NotAfter) equals the domain's intended condition; what it returns is
\* that domain's own entry, and in every other case it fails.
C1_ServesOnlyIntendedCondition ==
    \A sni \in ServerNames :
        LET r == GetCertificate(sni, now)
        IN  IF sni \in Domains /\ cache[sni].loaded
               /\ ((now > cache[sni].cert.na) <=> (Role(sni) = "expired"))
            THEN r.ok /\ r.key = cache[sni].key /\ r.cert = cache[sni].cert
            ELSE ~r.ok

\* The valid domain's served certificate has expired unrenewed and the
\* handshake is refused.
C1_Witness ==
    /\ cache["valid.test"].loaded
    /\ now > cache["valid.test"].cert.na
    /\ ~GetCertificate("valid.test", now).ok

\* C2: the material the cache holds for a domain is a key and leaf that match
\* and that were together in that domain's current slot, whatever faults and
\* restarts happened.
C2_CacheHoldsMatchedCurrentPair ==
    \A d \in Domains :
        cache[d].loaded =>
            /\ cache[d].key # 0
            /\ cache[d].cert.key = cache[d].key
            /\ cache[d].key \in everCurrent[d]

\* The cache still serves a pair while the current slot on disk no longer
\* reads (a rotation stopped between the two renames).
C2_Witness ==
    \E d \in Domains :
        /\ cache[d].loaded
        /\ disk[d].current.key # 0
        /\ ~ReadCurrent(disk[d]).ok

\* C3: after a take_next that returned success, the current slot holds a
\* matching key and leaf, and they are the pair read from next before the
\* renames.
C3_TakeNextCommitsValidatedPair ==
    last.take = "ok" =>
        LET cur == disk[last.dom].current
            pre == ReadNext(last.takePre)
        IN  /\ pre.ok
            /\ cur.key = pre.key /\ cur.cert = pre.cert
            /\ cur.cert.key = cur.key
            /\ ReadCurrent(disk[last.dom]).ok

\* A successful promotion that replaced an older current pair.
C3_Witness ==
    /\ last.take = "ok"
    /\ ReadCurrent(last.takePre).ok

\* C4 as claimed: after a take_next that returned an error, both files of the
\* current slot are what they were before the call.
C4_FailedTakeNextLeavesCurrent ==
    last.take = "err" => disk[last.dom].current = last.takePre.current

\* C5: read_current never returns a mismatched pair, and after a take_next
\* that failed it returns the pre-promotion pair or an error.
C5_ReadCurrentNeverMismatched ==
    /\ \A d \in Domains :
          LET r == ReadCurrent(disk[d])
          IN  r.ok => /\ r.key = disk[d].current.key
                      /\ r.cert = disk[d].current.cert
                      /\ r.cert.key = r.key
    /\ last.take = "err" =>
          LET r == ReadCurrent(disk[last.dom])
          IN  ~r.ok \/ (r.key = last.takePre.current.key
                        /\ r.cert = last.takePre.current.cert)

\* take_next failed after the key rename: current holds the new key beside
\* the old certificate, and read_current reports an error.
C5_Witness ==
    /\ last.take = "err"
    /\ disk[last.dom].current.key # last.takePre.current.key
    /\ last.takePre.current.cert.chain >= 1
    /\ ~ReadCurrent(disk[last.dom]).ok

C7_PromotedRevokedIsOnCRL ==
    (last.take = "ok" /\ Role(last.dom) = "revoked") => last.crlres = "listed"

\* C7 amended: a certificate promoted (or served) for the revoked domain
\* either carries no CRL distribution point, or was found on the fetched CRL
\* whose signature verified under the chain's issuer.
C7_PromotedRevokedIsOnCRLOrHasNoCRL ==
    /\ (last.take = "ok" /\ Role(last.dom) = "revoked") =>
          \/ last.crlres = "listed"
             /\ <<last.dom, disk[last.dom].current.key>> \in crl
          \/ last.crlres = "absent" /\ ~disk[last.dom].current.cert.crldp
    /\ \A d \in Domains :
          (Role(d) = "revoked" /\ cache[d].loaded /\ cache[d].cert.crldp)
              => <<d, cache[d].key>> \in crl

\* A revoked certificate with a distribution point was promoted after the CRL
\* listed it.
C7_Witness ==
    /\ last.take = "ok"
    /\ Role(last.dom) = "revoked"
    /\ last.crlres = "listed"
    /\ cache["revoked.test"].loaded

\* C8: every chain in the revoked domain's next or current slot was revoked
\* with reason keyCompromise (1) before it was written, and no revocation is
\* ever sent for the valid or expired domain.
C8_RevokedBeforeStored ==
    /\ \A d \in Domains : \A ver \in {"next", "current"} :
          (Role(d) = "revoked" /\ disk[d][ver].cert.chain >= 1) =>
              [dom |-> d, key |-> disk[d][ver].cert.key, reason |-> 1] \in revoked
    /\ \A r \in revoked : Role(r.dom) = "revoked" /\ r.reason = 1
    /\ last.revcalls > 0 => Role(last.dom) = "revoked"

\* The revoked domain's chain is staged in next, its revocation accepted,
\* while the CRL does not list it yet.
C8_Witness ==
    /\ disk["revoked.test"].next.cert.chain >= 1
    /\ last.dom = "revoked.test"
    /\ last.revcalls = 1
    /\ last.crlres = "unlisted"

\* C9: every configured domain has exactly one start job, and the jobs
\* submitted at setup lie less than a minute after the start.
C9_ExactlyOneStartJob ==
    /\ \A d \in Domains :
          /\ Cardinality(JobsOf(d)) = 1
          /\ \A j \in JobsOf(d) : CopiesIn(j, jobs) = 1
    /\ \A j \in BagToSet(jobs) : j.dom \in Domains
    /\ (now = 1 /\ nfaults = 0 /\ KeysUsed(keyCtr) = 0) =>
          \A j \in BagToSet(jobs) : j.at >= now /\ j.at < now + Minute

\* A run of start whose issue failed has ended and left its one job.
C9_Witness ==
    /\ last.op = "start"
    /\ last.err
    /\ Cardinality(JobsOf(last.dom)) = 1

\* C10: when issue returned an error, the next run of start is scheduled
\* exactly one hour after the current instant.
C10_ErrorRetriesInOneHour ==
    (last.op = "start" /\ last.issued /\ last.err) =>
        /\ last.nextRun = now + Hour
        /\ JobsOf(last.dom) = {Job(last.dom, now + Hour)}

\* issue failed in take_next and start retries in an hour.
C10_Witness ==
    /\ last.op = "start"
    /\ last.err
    /\ last.take = "err"
    /\ BagIn(Job(last.dom, now + Hour), jobs)

\* C11 as claimed: issue takes next exactly when checkReady returned no error
\* and now >= ready_at.
C11_PromotesIffReadyAtReached ==
    (last.op = "start" /\ last.ready.checked) =>
        ((last.take # "none") <=> (~last.ready.err /\ now >= last.ready.at))

\* C11 amended: issue takes next exactly when checkReady returned no error and
\* now is strictly after ready_at (a zero ready_at is always in the past); at
\* or before ready_at it returns no error, leaves both slots as they were when
\* checkReady was called, and the next start is scheduled at exactly ready_at.
C11_PromotesIffAfterReadyAt ==
    /\ (last.op = "start" /\ last.ready.checked) =>
          ((last.take # "none") <=> (~last.ready.err /\ now > last.ready.at))
    /\ (last.op = "start" /\ last.ready.checked /\ ~last.ready.err
          /\ ~(now > last.ready.at)) =>
          /\ ~last.err
          /\ last.nextRun = last.ready.at
          /\ JobsOf(last.dom) = {Job(last.dom, last.ready.at)}
          /\ disk[last.dom] = last.takePre
          /\ ReadNext(disk[last.dom]).ok

\* A run at the very instant ready_at: the next certificate stays staged.
C11_Witness ==
    /\ last.op = "start"
    /\ last.ready.checked /\ ~last.ready.err
    /\ last.ready.at = now
    /\ last.take = "none"

AllServed ==
    /\ \A d \in Domains : cache[d].loaded
    /\ ~(now > cache["valid.test"].cert.na)
    /\ ~(now > cache["revoked.test"].cert.na)
    /\ <<"revoked.test", cache["revoked.test"].key>> \in crl
    /\ now > cache["expired.test"].cert.na

\* C13: from an empty data directory, with the CA issuing and revoking on
\* request, the CRL listing revocations and the clock advancing, the Cache
\* eventually holds all three domains' material in the intended states.
C13_ColdStartServesAll == <>AllServed

\* All three domains are served, the expired one from its first certificate.
C13_Witness ==
    /\ AllServed
    /\ \A d \in Domains : GetCertificate(d, now).ok
    /\ cache["expired.test"].key = 1

\* Clock units a renewal needs at most, from the instant it is due to the
\* promotion of the new certificate.
RenewalSlack == Lifetime + CheckInterval + 2

\* C14: once the clock has passed the renewal time of the certificate a domain
\* serves, the served leaf is eventually replaced by one with a strictly
\* later NotAfter.
C14_RenewalReplacesServedLeaf ==
    \A d \in Domains : \A n \in 0..(LiveMaxTime + Lifetime) :
        (/\ cache[d].loaded
         /\ cache[d].cert.na = n
         /\ now > CheckRenew(d, cache[d].cert, now, "none")
         /\ now + RenewalSlack <= LiveMaxTime)
        ~> (cache[d].loaded /\ cache[d].cert.na > n)

\* Every domain serves a renewed certificate.
C14_Witness ==
    \A d \in Domains :
        /\ cache[d].loaded
        /\ cache[d].key > 1
        /\ cache[d].cert.nb > Minute

\* Whether execute has popped the job known as id.
IsDispatched(id) == \E i \in 1..Len(dispatched) : dispatched[i].id = id

\* C15: the scheduler never dispatches a job before its fire time, and never
\* dispatches a job more than once.
C15_NeverEarlyNeverTwice ==
    \A i \in 1..Len(dispatched) :
        /\ ~(dispatched[i].when < dispatched[i].at)
        /\ \A k \in 1..Len(dispatched) :
              (dispatched[k].id = dispatched[i].id) => (k = i)

\* A job submitted for a later time was dispatched at that time, while
\* another job, not yet due, stays in the heap.
C15_Witness ==
    /\ \E i \in 1..Len(dispatched) :
          /\ dispatched[i].at > 1
          /\ dispatched[i].when = dispatched[i].at
    /\ \E j \in BagToSet(jobs) : now < j.at

\* Whether the job known as id has been submitted, is not yet dispatched and
\* has reached its fire time.
DuePending(id) ==
    \E j \in incoming \cup BagToSet(jobs) : j.id = id /\ ~(now < j.at)

\* C16: while the context is not cancelled, every submitted job whose fire
\* time the clock has reached is eventually dispatched; the clock need not
\* advance for it, so a job submitted for a time in the past is dispatched
\* without waiting for the clock.
C16_DueJobEventuallyDispatched ==
    \A id \in 1..MaxJobs : DuePending(id) ~> (IsDispatched(id) \/ cancelled)

\* A job submitted for a time before the clock's first instant was dispatched
\* at that instant, and the context is not cancelled.
C16_Witness ==
    /\ ~cancelled
    /\ \E i \in 1..Len(dispatched) :
          dispatched[i].at < 1 /\ dispatched[i].when = 1

\* Every job the scheduler holds or has dispatched.
AllJobs ==
    BagToSet(jobs) \cup
    {job(dispatched[i].id, dispatched[i].at) : i \in 1..Len(dispatched)}

\* Whether x was in the heap together with y, with an earlier fire time.
DueBefore(x, y) == <<x.id, y.id>> \in together /\ x.at < y.at

\* C17, as claimed: of two jobs that were in the heap together, the task of
\* the one with the earlier fire time begins to run before the other's.
C17_TasksRunInFireOrder ==
    \A k \in 1..Len(started) : \A x \in AllJobs :
        DueBefore(x, started[k]) =>
            \E i \in 1..(k - 1) : started[i].id = x.id

\* C17, amended: of two jobs that were in the heap together, the one with the
\* earlier fire time is dispatched (popped and given its goroutine) before
\* the other, whatever the order of their submission; the order in which the
\* two goroutines begin to run their tasks is not determined.
C17_DispatchedInFireOrder ==
    \A k \in 1..Len(dispatched) : \A x \in AllJobs :
        DueBefore(x, dispatched[k]) =>
            \E i \in 1..(k - 1) : dispatched[i].id = x.id

\* Two jobs submitted in decreasing order of fire time were in the heap
\* together and both were dispatched, the later submission first.
C17_Witness ==
    /\ Len(dispatched) = 2
    /\ dispatched[1].id = 2
    /\ dispatched[1].at < dispatched[2].at
    /\ <<2, 1>> \in together

\* C18, as claimed: no job is dispatched once the context is cancelled.
C18_NoDispatchAfterCancel ==
    \A i \in 1..Len(dispatched) : ~dispatched[i].cancelled

\* C19, as claimed: a call of RunAt made once the loop has returned returns
\* to its caller; no caller is left blocked on the channel.
C19_RunAtAfterCancelReturns ==
    [][(pc = "stopped") => (incoming' \subseteq incoming)]_vars

\* C20: a client hello whose ALPN list is exactly <<"acme-tls/1">> is
\* answered from the challenge map alone: with the challenge certificate of
\* the last Present of the server name that no CleanUp followed, and with a
\* failure when there is none, whatever the served map holds.  A hello with
\* any other ALPN list is never answered with a challenge certificate.
C20_AcmeHelloConsultsOnlyChallengeMap ==
    \A sni \in ServerNames : \A protos \in AlpnLists :
        LET r == GetCertificateHello(sni, protos)
        IN  IF protos = <<"acme-tls/1">>
            THEN /\ r.ok <=> (presented[sni] # NoChallenge)
                 /\ r.ok => /\ r.from = "challengeCerts"
                            /\ r.challenge = presented[sni]
                 /\ r.from # "certs"
            ELSE /\ r.from # "challengeCerts"
                 /\ r.challenge = NoChallenge

\* One domain is served and has a challenge presented: the ACME hello gets
\* the challenge certificate and the plain hello the served one.  Another
\* domain is served and has no challenge: its ACME hello fails.
C20_Witness ==
    /\ cache["valid.test"].loaded
    /\ GetCertificateHello("valid.test", <<"acme-tls/1">>).from
          = "challengeCerts"
    /\ GetCertificateHello("valid.test", <<"h2", "acme-tls/1">>).from = "certs"
    /\ cache["revoked.test"].loaded
    /\ ~GetCertificateHello("revoked.test", <<"acme-tls/1">>).ok
    /\ challengeCerts["unknown.test"] # NoChallenge

\* C23, as claimed: when the CRL cannot be fetched, parsed or verified,
\* checkReady answers (now + checkInterval, error) and the run only
\* reschedules start at that instant: the next slot is kept as it was when
\* checkReady was called.
C23_CRLFailureOnlyReschedules ==
    (last.op = "start" /\ last.crlres \in {"fetchErr", "sigErr"}) =>
        /\ last.ready.err
        /\ last.ready.at = now + CheckInterval
        /\ last.nextRun = last.ready.at
        /\ disk[last.dom].next = last.takePre.next

\* C26, as claimed: a run of start calls Obtain at most once and
\* RevokeWithReason at most once.
C26_AtMostOneOrderPerRun ==
    (last.op = "start") => (last.obtains <= 1 /\ last.revcalls <= 1)

\* Whether the last step was a run of start in which checkReady returned an
\* error for a certificate found in the next slot.
ReadyErrOnStaged ==
    /\ last.op = "start"
    /\ last.ready.checked
    /\ last.ready.err
    /\ last.ready.reused

\* C24, as claimed: such a run orders one certificate that replaces the
\* staged one, promotes nothing, and returns checkReady's error, so that
\* start runs again in an hour.
C24_ReadyErrorReissuesOnce ==
    ReadyErrOnStaged =>
        /\ last.obtains = 1
        /\ ReadNext(disk[last.dom]).ok
        /\ disk[last.dom].next.key # last.takePre.next.key
        /\ last.take = "none"
        /\ disk[last.dom].current = last.takePre.current
        /\ last.err
        /\ last.why = "checkReady"
        /\ last.nextRun = now + Hour

\* C24, amended: such a run calls issueNext once and promotes nothing; it
\* returns an error, so that start runs again in an hour.  The error is
\* checkReady's when issueNext succeeds, and then the next slot holds the
\* fresh pair; when issueNext fails the error is issueNext's.
C24_ReadyErrorReissuesOrFails ==
    ReadyErrOnStaged =>
        /\ last.obtains <= 1
        /\ last.revcalls <= 1
        /\ last.take = "none"
        /\ disk[last.dom].current = last.takePre.current
        /\ last.err
        /\ last.nextRun = now + Hour
        /\ JobsOf(last.dom) = {Job(last.dom, now + Hour)}
        /\ last.why \in {"checkReady", "issueNext"}
        /\ (last.why = "checkReady") =>
              /\ last.obtains = 1
              /\ ReadNext(disk[last.dom]).ok
              /\ disk[last.dom].next.key # last.takePre.next.key
              /\ disk[last.dom].next.cert.nb = now

\* A staged certificate had expired; the run replaced it with a fresh pair
\* and returned checkReady's error.
C24_Witness ==
    /\ ReadyErrOnStaged
    /\ last.why = "checkReady"
    /\ last.crlres = "unchecked"
    /\ now > last.takePre.next.cert.na
    /\ ReadNext(disk[last.dom]).ok

\* Whether the next slot dd holds a matched pair with an issuer certificate
\* that the checker of d accepts at time t without error, under the fault f.
StagedAndSound(d, dd, t, f) ==
    /\ read(dd, "next").ok
    /\ dd.next.cert.chain >= 2
    /\ ~CheckReady(d, dd.next.cert, t, f).err

\* C25: a run of start that finds such a pair staged calls neither Obtain nor
\* RevokeWithReason and generates no key; it leaves the directory as it is,
\* or promotes the staged pair as it is.
C25_StagedNextIsReused ==
    [][(/\ last'.op = "start"
        /\ StagedAndSound(last'.dom, disk[last'.dom], now, last'.fault))
       => /\ last'.obtains = 0
          /\ last'.revcalls = 0
          /\ keyCtr' = keyCtr
          /\ revoked' = revoked
          /\ (last'.take = "none") => (disk' = disk)
          /\ (last'.take = "ok") =>
                /\ disk'[last'.dom].current = disk[last'.dom].next
                /\ disk'[last'.dom].next = EmptySlot]_vars

\* A run found a pair staged by an earlier run, was told to wait, and left
\* it in the next slot.
C25_Witness ==
    /\ last.op = "start"
    /\ last.issued
    /\ last.ready.checked
    /\ last.ready.reused
    /\ ~last.ready.err
    /\ last.take = "none"
    /\ last.obtains = 0
    /\ ReadNext(disk[last.dom]).ok

\* Whether the next slot dd reads as a matched pair without an issuer
\* certificate.
StagedShortChain(dd) == read(dd, "next").ok /\ dd.next.cert.chain <= 1

\* C27: a pair whose chain has fewer than two certificates is never handed
\* to checkReady and never promoted, into the current slot or the cache; a
\* run of issue that finds one staged returns an error and leaves the
\* directory as it is, and one that has just been issued one returns an error
\* without promoting it.
C27_ShortChainNeverCheckedNorPromoted ==
    /\ [](/\ \A d \in Domains :
                /\ disk[d].current.cert.chain # 1
                /\ cache[d].cert.chain # 1
          /\ (last.op = "start" /\ last.ready.checked) =>
                (last.takePre.next.cert.chain >= 2)
          /\ (last.op = "start" /\ last.why = "chain") =>
                (last.err /\ last.take = "none" /\ ~last.ready.checked))
    /\ [][(/\ last'.op = "start"
           /\ last'.issued
           /\ StagedShortChain(disk[last'.dom]))
          => /\ last'.err
             /\ last'.why = "chain"
             /\ ~last'.ready.checked
             /\ last'.take = "none"
             /\ last'.obtains = 0
             /\ disk' = disk
             /\ cache' = cache]_vars

\* A run found a pair without an issuer certificate staged by an earlier run
\* and left it where it was.
C27_Witness ==
    /\ last.op = "start"
    /\ last.why = "chain"
    /\ last.obtains = 0
    /\ StagedShortChain(disk[last.dom])
    /\ disk[last.dom] = last.takePre

\* Whether the step is one in which the process died and main started again.
Restarted == nfaults' # nfaults /\ last' = NoRun

\* C28: while the process lives, a domain whose cache entry holds material
\* keeps holding material, a run of start touches no entry but its own
\* domain's, and a run that ends in an error (of issuance, revocation,
\* checkReady or promotion) leaves the cache as it was.
C28_CacheKeepsMaterial ==
    [][Restarted \/
       /\ \A d \in Domains : cache[d].loaded => cache'[d].loaded
       /\ \A d \in Domains : (d # last'.dom) => (cache'[d] = cache[d])
       /\ (last'.op = "start" /\ last'.err) => (cache' = cache)]_vars

\* A promotion failed while the domain was serving a certificate, and the
\* domain still serves it.
C28_Witness ==
    /\ last.op = "start"
    /\ last.take = "err"
    /\ last.err
    /\ cache[last.dom].loaded
    /\ GetCertificate(last.dom, now).ok

\* C21: after store_next_key and store_next_cert of a certificate for that
\* key, read_next returns that key (of the type asked for) and certificate;
\* after the take_next that follows, read_current returns the same pair,
\* whatever current held before, and next is empty; this holds in every round.
C21_StoreCycle ==
    \A d \in Domains :
       LET c == cycle[d]
           pair == [ok |-> TRUE, key |-> c.key, cert |-> c.cert]
       IN  /\ c.stage \in {"key", "cert", "taken"} =>
                 /\ c.keyType \in KeyTypes
                 /\ KeyTypeOf(c.key) = c.keyType
           /\ c.stage = "cert" => ReadNext(disk[d]) = pair
           /\ c.stage = "taken" =>
                 /\ ReadCurrent(disk[d]) = pair
                 /\ disk[d].next = EmptySlot
                 /\ ~ReadNext(disk[d]).ok

\* A second round of the cycle has finished for a domain with an RSA key,
\* replacing the pair of the first round.
C21_Witness ==
    \E d \in Domains :
       /\ cycle[d].stage = "taken"
       /\ cycle[d].rounds = 2
       /\ cycle[d].keyType = "rsa2048"
       /\ ReadCurrent(disk[d]).ok

\* C22 as claimed: read_acme(dir) answers not-found until a store_acme for dir
\* has succeeded, and from then on the stored account URI and key.
C22_NotFoundUntilStored ==
    \A directory \in DirectoryURLs :
       IF stored[directory].state = "stored"
       THEN /\ ReadACME(accounts, directory).ok
            /\ ReadACME(accounts, directory).uri = stored[directory].uri
            /\ ReadACME(accounts, directory).key = stored[directory].key
       ELSE /\ ~ReadACME(accounts, directory).ok
            /\ ReadACME(accounts, directory).err = "notExist"

\* What holds of the account files: each directory URL's answer depends on the
\* last store_acme for that URL that touched its file, and on nothing else.
C22_AccountRoundTrip ==
    \A directory \in DirectoryURLs :
       LET r == ReadACME(accounts, directory)
       IN  CASE stored[directory].state = "stored" ->
                   /\ r.ok
                   /\ r.uri = stored[directory].uri
                   /\ r.key = stored[directory].key
             [] stored[directory].state = "torn" ->
                   ~r.ok /\ r.err = "json"
             [] stored[directory].state = "never" ->
                   ~r.ok /\ r.err = "notExist"

\* One directory URL has an account, the other still has none.
C22_Witness ==
    \E a, b \in DirectoryURLs :
       /\ a # b
       /\ stored[a].state = "stored"
       /\ ReadACME(accounts, a).ok
       /\ stored[b].state = "never"

\* C29: a get_certificate that runs while load_certificate is replacing the
\* material of the same domain returns one complete tuple, the previous or
\* the new one: the tuple it returns is the tuple whose leaf it examined, and
\* its leaf and key belong together.
C29_NoPartialPromotion ==
    (thr["hello"].pc = "gc.out" /\ thr["hello"].b.loaded) =>
       /\ thr["hello"].b = thr["hello"].a
       /\ thr["hello"].b.cert.chain >= 1
       /\ thr["hello"].b.cert.key = thr["hello"].b.key
       /\ thr["hello"].b.key \in 1..keyCtr[LockDomain]

\* get_certificate has returned the previous tuple while load_certificate,
\* holding the new one, waits for the mutex of the cache.
C29_Witness ==
    /\ thr["hello"].pc = "gc.out"
    /\ thr["hello"].b.loaded
    /\ thr["issuer"].pc = "loaded"
    /\ thr["issuer"].a.loaded
    /\ thr["issuer"].a # thr["hello"].b

\* C30 as claimed: every write of the Store (store_next_key, store_next_cert,
\* take_next, store_acme) and the reads of a slot hold the Store's mutex, no
\* two writes are under way at once, and no read sees a slot between the two
\* renames of take_next.
C30_AllUnderOneMutex ==
    LET slotWrite == {"snk", "snc", "take.key", "take.cert"}
        slotRead == {"rc.cert", "rc.key", "load.cert", "load.key"}
        write == slotWrite \cup {"sa.encode"}
    IN  /\ \A t \in Threads :
              thr[t].pc \in write \cup slotRead => mu.store = t
        /\ Cardinality({t \in Threads : thr[t].pc \in write}) <= 1
        /\ \A t \in {"reader", "issuer"} :
              thr[t].a.loaded =>
                 \/ thr[t].a.key = 0 /\ thr[t].a.cert = NoCert
                 \/ /\ thr[t].a.cert.chain >= 1
                    /\ thr[t].a.cert.key = thr[t].a.key

\* What holds: the writes and reads of the key and certificate slots do.
C30_SlotsUnderOneMutex ==
    LET slotWrite == {"snk", "snc", "take.key", "take.cert"}
        slotRead == {"rc.cert", "rc.key", "load.cert", "load.key"}
    IN  /\ \A t \in Threads :
              thr[t].pc \in slotWrite \cup slotRead => mu.store = t
        /\ \A t \in {"reader", "issuer"} :
              thr[t].a.loaded =>
                 \/ thr[t].a.key = 0 /\ thr[t].a.cert = NoCert
                 \/ /\ thr[t].a.cert.chain >= 1
                    /\ thr[t].a.cert.key = thr[t].a.key

\* A reader has read current while the issuer waits to promote the next pair
\* over it, and a StoreACME is between its truncation and its write.
C30_Witness ==
    /\ thr["reader"].pc = "rc.out"
    /\ thr["reader"].a.key # 0
    /\ thr["issuer"].pc = "staged"
    /\ \E t \in AcctThreads : thr[t].pc = "sa.encode"

\* C31, as claimed: no task delays the loop, so every RunAt called before the
\* context is cancelled returns: its job leaves the channel for the heap.
C31_RunAtBeforeCancelReturns ==
    \A id \in 1..MaxJobs :
        ((\E j \in incoming : j.id = id) /\ ~cancelled)
            ~> ~(\E j \in incoming : j.id = id)

\* What holds: a RunAt returns unless the context is cancelled while the
\* caller is blocked, however long the tasks dispatched before it run.
C31_RunAtReturnsUnlessCancelled ==
    \A id \in 1..MaxJobs :
        (\E j \in incoming : j.id = id)
            ~> (~(\E j \in incoming : j.id = id) \/ cancelled)

\* A task dispatched earlier has begun and not ended, and a job submitted
\* for a later time has been dispatched at its time all the same.
C31_Witness ==
    /\ Len(dispatched) = 2
    /\ Len(started) >= 1
    /\ started[1].id = dispatched[1].id
    /\ dispatched[1].when < dispatched[2].when
    /\ ~dispatched[2].cancelled

\* C33: no goroutine acquires the Store's mutex while it holds the mutex of
\* the cache, and none waits for a mutex while holding one, so the issuer,
\* the readers of the store and the TLS handshakes cannot deadlock.
C33_StoreNeverEnteredUnderCacheLock ==
    /\ [](\A m \in {"store", "certs"} :
             mu[m] # "free" =>
                thr[mu[m]].pc \notin
                   {"idle", "obtained", "staged", "taken", "loaded"})
    /\ [][\A t \in Threads :
             (mu'.store = t /\ mu.store # t) => mu.certs # t]_vars

\* LoadCertificate has read current and waits for the cache's mutex, which a
\* handshake holds, while another goroutine is inside the Store.
C33_Witness ==
    /\ thr["issuer"].pc = "loaded"
    /\ mu.certs = "hello"
    /\ mu.store = "reader"

\* C34: revoked.checkReady answers, in this order of priority: an error with
\* the zero time when now is after notAfter; (zero, nil) without any fetch
\* when the leaf has no CRL distribution point; (now + checkInterval, error)
\* when the CRL cannot be fetched, parsed or verified under the issuer;
\* (zero, nil) when the verified CRL lists the serial; (now + checkInterval,
\* nil) when it does not.
C34_RevokedCheckReadyPriority ==
    (probe.op = "revoked.checkReady") =>
       IF probe.t > probe.c.na
       THEN probe.out.err /\ probe.out.at = ZeroTime
                          /\ probe.out.crl = "unchecked"
       ELSE IF ~probe.c.crldp
       THEN ~probe.out.err /\ probe.out.at = ZeroTime
                           /\ probe.out.crl = "absent"
       ELSE IF probe.f # "none"
       THEN probe.out.err /\ probe.out.at = probe.t + CheckInterval
       ELSE IF probe.listed
       THEN ~probe.out.err /\ probe.out.at = ZeroTime
       ELSE ~probe.out.err /\ probe.out.at = probe.t + CheckInterval

\* An expired leaf without a CRL distribution point was refused: the expiry
\* test comes before the look at the distribution points.
C34_Witness ==
    /\ probe.op = "revoked.checkReady"
    /\ probe.t > probe.c.na
    /\ ~probe.c.crldp
    /\ probe.out.err

\* C35: valid.checkReady returns an error exactly when now is after notAfter,
\* and the zero time in either case; valid.shouldRevoke is false.
C35_ValidCheckReady ==
    (probe.op = "valid.checkReady") =>
       /\ probe.out.err <=> (probe.t > probe.c.na)
       /\ probe.out.at = ZeroTime
       /\ ~probe.revoke

\* A leaf checked at the very instant of its notAfter is ready.
C35_Witness ==
    /\ probe.op = "valid.checkReady"
    /\ probe.t = probe.c.na
    /\ ~probe.out.err

\* C36: valid.checkRenew returns halfTime(cert) when the server has no ARI,
\* now + 1 hour on any other ARI error, and otherwise the earlier of p and
\* now + RetryAfter, where p is an instant of [start, end) of the suggested
\* window, and p = start when the window has no width.
C36_ValidCheckRenew ==
    (probe.op = "valid.checkRenew") =>
       LET resp == probe.resp
           retry == probe.t + resp.retryAfter
       IN  CASE resp.kind = "noARI" -> probe.out = halfTime(probe.c)
             [] resp.kind = "err" -> probe.out = probe.t + Hour
             [] OTHER ->
                  \E p \in 0..MaxLeafTime :
                     /\ IF resp.start < resp.end
                        THEN resp.start <= p /\ p < resp.end
                        ELSE p = resp.start
                     /\ probe.out = IF p > retry THEN retry ELSE p

\* A window without width, with a draw that would have moved the instant
\* and a retry instant later than the window: the start itself is returned.
C36_Witness ==
    /\ probe.op = "valid.checkRenew"
    /\ probe.resp.kind = "ok"
    /\ probe.resp.start = probe.resp.end
    /\ probe.resp.r > 0
    /\ probe.t + probe.resp.retryAfter > probe.resp.start
    /\ probe.out = probe.resp.start

\* C37: expired.checkReady returns notAfter and no error, expired.checkRenew
\* returns notAfter + (notAfter - notBefore), expired.shouldRevoke is false;
\* for a leaf with notBefore <= notAfter neither instant is before notAfter.
C37_ExpiredChecker ==
    (probe.op = "expired") =>
       /\ probe.out.at = probe.c.na
       /\ ~probe.out.err
       /\ probe.renew = probe.c.na + (probe.c.na - probe.c.nb)
       /\ ~probe.revoke
       /\ (probe.c.nb <= probe.c.na) =>
             (probe.out.at >= probe.c.na /\ probe.renew >= probe.c.na)

\* A leaf with a lifetime: it is renewed one lifetime after its expiry.
C37_Witness ==
    /\ probe.op = "expired"
    /\ probe.c.nb < probe.c.na
    /\ probe.out.at = probe.c.na
    /\ probe.renew > probe.c.na

\* C38 (as claimed): for every 64-bit delta, halfTime of the certificate with
\* notBefore = t and notAfter = t + delta + delta is t + delta.
C38_HalfTimeOfDelta ==
    (probe.op = "halfTime") => probe.out = probe.t + probe.delta

\* C38, the rest of the claim: halfTime lies between notBefore and notAfter
\* when notBefore <= notAfter, it is what revoked.checkRenew returns, and it
\* is t + delta whenever delta + delta is a time.Duration.
C38_HalfTimeWithinLifetime ==
    (probe.op = "halfTime") =>
       /\ (probe.c.nb <= probe.c.na) =>
             (probe.c.nb <= probe.out /\ probe.out <= probe.c.na)
       /\ probe.renew = probe.out
       /\ (/\ probe.delta + probe.delta <= MaxDuration
           /\ probe.delta + probe.delta >= 0 - MaxDuration - 1) =>
             probe.out = probe.t + probe.delta

\* A delta whose double is no time.Duration: NotAfter.Sub(NotBefore) is the
\* largest Duration and halfTime falls short of t + delta.
C38_Witness ==
    /\ probe.op = "halfTime"
    /\ probe.delta + probe.delta > MaxDuration
    /\ probe.out < probe.t + probe.delta

\* C39 (as claimed): after a successful ARI response the instant returned by
\* valid.checkRenew is not before the start of the suggested window and not
\* after its end.
C39_RenewWithinWindow ==
    (probe.op = "valid.checkRenew" /\ probe.resp.kind = "ok") =>
       /\ probe.resp.start <= probe.out
       /\ probe.out <= probe.resp.end

\* C39 (amended): after a successful ARI response the instant returned is not
\* after now + RetryAfter; it is before the end of a window that has a width
\* and not after the end of one that has none; and it is not before the start
\* of the window exactly when now + RetryAfter is not before that start.
C39_RenewCappedByRetry ==
    (probe.op = "valid.checkRenew" /\ probe.resp.kind = "ok") =>
       LET resp == probe.resp
           retry == probe.t + resp.retryAfter
       IN  /\ probe.out <= retry
           /\ (resp.start < resp.end) => (probe.out < resp.end)
           /\ (resp.start = resp.end) => (probe.out <= resp.end)
           /\ (resp.start <= probe.out) <=> (resp.start <= retry)

\* The window opens after now + RetryAfter: the retry instant, which is
\* before the window, is returned.
C39_Witness ==
    /\ probe.op = "valid.checkRenew"
    /\ probe.resp.kind = "ok"
    /\ probe.resp.start < probe.resp.end
    /\ probe.t + probe.resp.retryAfter < probe.resp.start
    /\ probe.out = probe.t + probe.resp.retryAfter

\* C32: LoadCertificate(domain) fails exactly when ReadCurrent fails or the
\* domain is not a configured one, and then leaves every entry of the map as
\* it was; when it succeeds it replaces the material of that domain's entry
\* by the pair read from the current slot, keeps the entry's shouldBeExpired
\* and leaves the entries of the other domains as they were.
C32_LoadCertificateFrame ==
    (probe.op = "LoadCertificate") =>
       LET curr == ReadCurrent(probe.dsk[probe.domain])
           failed == ~curr.ok \/ probe.domain \notin Domains
       IN  /\ (probe.out.err # "none") <=> failed
           /\ failed => (probe.out.certs = probe.certs)
           /\ ~failed =>
                /\ \A d \in Domains \ {probe.domain} :
                      probe.out.certs[d] = probe.certs[d]
                /\ probe.out.certs[probe.domain].shouldBeExpired =
                      probe.certs[probe.domain].shouldBeExpired
                /\ probe.out.certs[probe.domain].material =
                      [loaded |-> TRUE, key |-> curr.key, cert |-> curr.cert]

\* The entry of the expired domain held a pair and is given another one from
\* the current slot; it is still marked shouldBeExpired.
C32_Witness ==
    /\ probe.op = "LoadCertificate"
    /\ probe.domain = "expired.test"
    /\ probe.certs["expired.test"].material.loaded
    /\ probe.out.err = "none"
    /\ probe.out.certs["expired.test"].material #
          probe.certs["expired.test"].material
    /\ probe.out.certs["expired.test"].shouldBeExpired

\* C32, the failing calls: a domain that is not configured, with a readable
\* current slot, is refused and nothing of the map is touched.
C32_WitnessUnknownSite ==
    /\ probe.op = "LoadCertificate"
    /\ probe.domain \notin Domains
    /\ ReadCurrent(probe.dsk[probe.domain]).ok
    /\ probe.out.err = "unknown site"
    /\ probe.out.certs = probe.certs

C40_StoreCallsKeepToTheirDomain ==
    [][\E d \in Domains :
          /\ cycle'[d] # cycle[d] \/ disk'[d] # disk[d] \/ nfaults' # nfaults
          /\ \A other \in Domains \ {d} : disk'[other] = disk[other]]_vars

\* C40, Present and CleanUp: the challenge certificate of one server name
\* changes in a step, the others stay.
C40_ChallengeCallsKeepToTheirDomain ==
    [][\E d \in ServerNames :
          \A other \in ServerNames \ {d} :
             challengeCerts'[other] = challengeCerts[other]]_vars

\* C40, the paths: the files of two domains never share a path, and no
\* account file lies in the directory of a domain.
C40_PathsApart ==
    LET vers == {"next", "current"}
        files == {"private.pem", "certificate.pem", ""}
    IN  /\ \A d1 \in Domains : \A d2 \in Domains \ {d1} :
           \A v1 \in vers, v2 \in vers, f1 \in files, f2 \in files :
              /\ pathFor(d1, v1, f1) # pathFor(d2, v2, f2)
              /\ SubSeq(pathFor(d1, v1, f1), 1, 2) # pathFor(d2, v2, "")
        /\ \A directory \in Directories, d \in Domains, v \in vers :
              /\ AcctPath(directory) =
                    pathFor(PathEscape(directory), "current", "acme.json")
              /\ SubSeq(AcctPath(directory), 1, 2) # pathFor(d, v, "")

====
